---- MODULE Spec2Model ----
(***************************************************************************)
(* Verification model of the ConnectSphere agent layer:                    *)
(*   - the moderation decision of ContentModerationAgent.analyze_content   *)
(*     and the threshold table it reads (content_moderation_agent.py);     *)
(*   - the request/response correlation of BaseAgent.collaborate_with_agent*)
(*     and the mailbox loop BaseAgent._listen_for_messages (base_agent.py).*)
(* Scores and thresholds are in hundredths: 70 stands for 0.7.             *)
(***************************************************************************)
EXTENDS Integers, FiniteSets, Sequences, TLC

VARIABLES
    thresholds,   \* ContentModerationAgent.thresholds: key -> cutoff
    direct,       \* a direct analyze_content call (main.py:159): its position and locals
    mailbox,      \* the moderator's mailbox loop: its position, message and handler locals
    clock,        \* asyncio loop time: the last value read, and whether it can be read again
    calls,        \* the collaborate_with_agent calls: position, message, polls done, result
    topics,       \* Kafka topic agent-{name}: the messages published on it, in order
    offsets,      \* the position of each agent's consumer group in its topic
    redeliveries, \* how often the broker has rewound a consumer (at-least-once delivery)
    listener,     \* _listen_for_messages of each agent: position, message, handler outcome
    logged,       \* the errors each agent's mailbox loop has logged (logger.error)
    orphaned,     \* history: the response keys written after their requester timed out
    store,        \* Redis: key -> value and seconds to live
    orch,         \* AutoGenOrchestrator: the operation in progress, the agent's text, the outcome
    chat,         \* the shared conversation: its variant, state, turns and last message
    insights,     \* insight extraction: the messages, how many are scanned, the buckets
    profile,      \* UserProfilerTool: the stored profile of one user and the last run
    task          \* BaseAgent.process_task: its position, outcome and the metrics emitted

modVars == <<thresholds, direct, mailbox>>
collabVars == <<clock, calls, topics, offsets, redeliveries, listener, logged, orphaned,
               store>>
toolVars == <<chat, insights, profile, task>>
vars == <<thresholds, direct, mailbox, clock, calls, topics, offsets, redeliveries,
          listener, logged, orphaned, store, orch, chat, insights, profile, task>>

\* No conversation, extraction, profiler run or task has started
NoChat == [state |-> "idle"]
NoInsights == [pc |-> "idle"]
NoProfile == [stored |-> FALSE]
NoTask == [pc |-> "idle"]
ToolsIdle ==
    /\ chat = NoChat
    /\ insights = NoInsights
    /\ profile = NoProfile
    /\ task = NoTask

----------------------------------------------------------------------------
(* Python values *)

\* dict.get(key, default)
Get(d, k, default) == IF k \in DOMAIN d THEN d[k] ELSE default

\* The empty dict {}
EmptyDict == <<>>

\* Mutant: the supplied mapping replaces the table
DictUpdate_Replace(d, new) == new

\* Mutant: a key already in the table keeps its value (setdefault for each key)
DictUpdate_KeepsFirst(d, new) ==
    [k \in (DOMAIN d) \cup (DOMAIN new) |-> IF k \in DOMAIN d THEN d[k] ELSE new[k]]

\* dict.update(new): keys of new overwrite, the other keys stay
DictUpdate(d, new) ==
    [k \in (DOMAIN d) \cup (DOMAIN new) |-> IF k \in DOMAIN new THEN new[k] ELSE d[k]]

----------------------------------------------------------------------------
(* Collaboration: BaseAgent.collaborate_with_agent and _listen_for_messages *)

\* for _ in range(30)
MaxPolls == 30
\* setex(key, 60, value)
ResponseTTL == 60

\* Bounds
MaxRedeliveries == 1
MaxExternal == 2

Agents == {"ContentModerator", "PersonalizationEngine"}
Callers == {"PersonalizationEngine"}
ConcurrentTargets == {"ContentModerator"}
CallIds == {1, 2}

\* None, for a result, a handler's return value or a correlation_id
None == [none |-> TRUE]
\* A mapping is a set of <<key, value>> pairs
Mapping(m) == [none |-> FALSE, body |-> m]
\* What _handle_message may return for a message: None, the empty mapping, or an
\* answer made from the message's content
HandlerReturns(message) ==
    {None, Mapping({}), Mapping({<<"answer_to", message.content>>})}

\* Python truthiness of an Optional[dict] and of an Optional[str]
TruthyDict(r) == ~r.none /\ r.body # {}
TruthyStr(x) == ~x.none /\ x.text # <<>>

\* json.dumps / json.loads: the text of a value, and the value a text denotes
JsonDumps(r) == [none |-> FALSE, text |-> IF r.none THEN <<"null">> ELSE <<"object", r.body>>]
JsonLoads(t) == IF t.text = <<"null">> THEN None ELSE Mapping(t.text[2])

\* f"{self.name}_{target_agent}_{time}" (line 193), and f"response:{correlation_id}"
CorrelationId(sender, target, time) == [none |-> FALSE, text |-> <<sender, target, time>>]
ResponseKey(cid) == <<"response", cid.text>>

\* AgentMessage (lines 41-48), without its timestamp
Message(sender, receiver, type, content, cid) ==
    [sender |-> sender, receiver |-> receiver, message_type |-> type, content |-> content,
     correlation_id |-> cid]
NoAgentMessage == Message("", "", "", 0, None)

\* Redis operations on the store (a function from the keys present)
RedisGet(st, key) == IF key \in DOMAIN st THEN [none |-> FALSE, text |-> st[key].value.text] ELSE None
RedisSetex(st, key, ttl, value) ==
    [k \in (DOMAIN st) \cup {key} |-> IF k = key THEN [value |-> value, ttl |-> ttl] ELSE st[k]]
RedisDelete(st, key) == [k \in (DOMAIN st) \ {key} |-> st[k]]
\* Mutant: keys are dropped while they still have time to live
RedisAge_ExpiresEarly(st) ==
    [k \in {x \in DOMAIN st : st[x].ttl > 31} |-> [st[k] EXCEPT !.ttl = @ - 1]]

\* One second passes: every key is a second older, and gone at the end of its life
RedisAge(st) ==
    [k \in {x \in DOMAIN st : st[x].ttl > 1} |-> [st[k] EXCEPT !.ttl = @ - 1]]

\* loop.time() is monotonic: a reading equals the previous one (as long as the
\* clock has not advanced past it) or is later
ClockReadings == (IF clock.fresh THEN {clock.last} ELSE {}) \cup {clock.last + 1}

\* A call: its position, its message, the redis gets done, the sleeps ended, its result
NoCall == [pc |-> "init", message |-> NoAgentMessage, polls |-> 0, waited |-> 0,
           result |-> None]

CollabInit ==
    /\ clock = [last |-> 0, fresh |-> FALSE]
    /\ calls = [c \in CallIds |-> NoCall]
    /\ topics = [a \in Agents |-> <<>>]
    /\ offsets = [a \in Agents |-> 1]
    /\ redeliveries = 0
    /\ listener = [a \in Agents |-> [pc |-> "waiting", message |-> NoAgentMessage,
                                     response |-> None]]
    /\ logged = [a \in Agents |-> 0]
    /\ orphaned = {}
    /\ store = <<>>

\* Mutant: the message is sent on the sender's own channel
StartCall_OwnChannel(c, sender, target, type, content) ==
    /\ calls[c].pc = "init"
    /\ (\A d \in CallIds : calls[d].pc = "init") \/ clock.fresh
    /\ \E time \in ClockReadings :
          LET message == Message(sender, target, type, content,
                                 CorrelationId(sender, target, time))
          IN /\ clock' = [last |-> time, fresh |-> TRUE]
             /\ topics' = [topics EXCEPT ![sender] = Append(@, message)]
             /\ calls' = [calls EXCEPT ![c] = [pc |-> "poll", message |-> message,
                                               polls |-> 0, waited |-> 0,
                                               result |-> None]]
    /\ UNCHANGED <<offsets, redeliveries, listener, store, logged, orphaned, modVars, orch, toolVars>>

\* Lines 187-200: build the message and send it on agent-{target_agent}. The
\* calls of the model are issued within one second of each other.
StartCall(c, sender, target, type, content) ==
    /\ calls[c].pc = "init"
    /\ (\A d \in CallIds : calls[d].pc = "init") \/ clock.fresh
    /\ \E time \in ClockReadings :
          LET message == Message(sender, target, type, content,
                                 CorrelationId(sender, target, time))
          IN /\ clock' = [last |-> time, fresh |-> TRUE]
             /\ topics' = [topics EXCEPT ![target] = Append(@, message)]
             /\ calls' = [calls EXCEPT ![c] = [pc |-> "poll", message |-> message,
                                               polls |-> 0, waited |-> 0,
                                               result |-> None]]
    /\ UNCHANGED <<offsets, redeliveries, listener, store, logged, orphaned, modVars, orch, toolVars>>

\* Mutant: the loop gives up one poll early (range(29))
Poll_GivesUpEarly(c) ==
    /\ calls[c].pc = "poll"
    /\ LET key == ResponseKey(calls[c].message.correlation_id)
           response_data == RedisGet(store, key)
       IN IF calls[c].polls = MaxPolls - 1
          THEN /\ calls' = [calls EXCEPT ![c].pc = "done"]
               /\ UNCHANGED store
          ELSE IF TruthyStr(response_data)
               THEN /\ calls' = [calls EXCEPT ![c].pc = "done",
                                              ![c].polls = @ + 1,
                                              ![c].result = JsonLoads(response_data)]
                    /\ store' = RedisDelete(store, key)
               ELSE /\ calls' = [calls EXCEPT ![c].pc = "sleep", ![c].polls = @ + 1]
                    /\ UNCHANGED store
    /\ orphaned' = orphaned \cap DOMAIN store'
    /\ UNCHANGED <<clock, topics, offsets, redeliveries, listener, logged, modVars, orch, toolVars>>

\* Lines 206-214: one pass of the for loop, up to the sleep or the return
Poll(c) ==
    /\ calls[c].pc = "poll"
    /\ LET key == ResponseKey(calls[c].message.correlation_id)
           response_data == RedisGet(store, key)
       IN IF calls[c].polls = MaxPolls
          THEN /\ calls' = [calls EXCEPT ![c].pc = "done"]
               /\ UNCHANGED store
          ELSE IF TruthyStr(response_data)
               THEN /\ calls' = [calls EXCEPT ![c].pc = "done",
                                              ![c].polls = @ + 1,
                                              ![c].result = JsonLoads(response_data)]
                    /\ store' = RedisDelete(store, key)
               ELSE /\ calls' = [calls EXCEPT ![c].pc = "sleep", ![c].polls = @ + 1]
                    /\ UNCHANGED store
    /\ orphaned' = orphaned \cap DOMAIN store'
    /\ UNCHANGED <<clock, topics, offsets, redeliveries, listener, logged, modVars, orch, toolVars>>

\* One second passes: asyncio.sleep(1) ends for the sleeping calls (line 212), the
\* keys of the store age, and the clock moves on. A call that is ready to run is
\* scheduled before the second is over.
Tick ==
    /\ \A c \in CallIds : calls[c].pc # "poll"
    /\ calls' = [c \in CallIds |-> IF calls[c].pc = "sleep"
                                   THEN [calls[c] EXCEPT !.pc = "poll", !.waited = @ + 1]
                                   ELSE calls[c]]
    /\ store' = RedisAge(store)
    /\ orphaned' = orphaned \cap DOMAIN store'
    /\ clock' = [clock EXCEPT !.fresh = FALSE]
    /\ UNCHANGED <<topics, offsets, redeliveries, listener, logged, modVars, orch, toolVars>>

\* The messages without correlation_id published so far
ExternalMessages ==
    UNION {{<<a, i>> : i \in {j \in DOMAIN topics[a] : topics[a][j].correlation_id.none}} :
           a \in Agents}

\* Another producer publishes a message without correlation_id on an agent's topic
ExternalPublish(a, type) ==
    /\ Cardinality(ExternalMessages) < MaxExternal
    /\ topics' = [topics EXCEPT ![a] = Append(@, Message("external", a, type, 0, None))]
    /\ UNCHANGED <<clock, calls, offsets, redeliveries, listener, store, logged, orphaned, modVars, orch, toolVars>>

\* Mutant: the consumer yields the next message while a handler is still running
Receive_Overlapping(a) ==
    /\ listener[a].pc \in {"waiting", "handling"}
    /\ offsets[a] <= Len(topics[a])
    /\ listener' = [listener EXCEPT ![a] = [pc |-> "handling",
                                            message |-> topics[a][offsets[a]],
                                            response |-> None]]
    /\ offsets' = [offsets EXCEPT ![a] = @ + 1]
    /\ UNCHANGED <<clock, calls, topics, redeliveries, store, logged, orphaned, modVars, orch, toolVars>>

\* Lines 225-228: the consumer yields the next message and the handler is called
Receive(a) ==
    /\ listener[a].pc = "waiting"
    /\ offsets[a] <= Len(topics[a])
    /\ listener' = [listener EXCEPT ![a] = [pc |-> "handling",
                                            message |-> topics[a][offsets[a]],
                                            response |-> None]]
    /\ offsets' = [offsets EXCEPT ![a] = @ + 1]
    /\ UNCHANGED <<clock, calls, topics, redeliveries, store, logged, orphaned, modVars, orch, toolVars>>

\* At-least-once delivery: the broker hands the last message to the consumer again
Redeliver(a) ==
    /\ listener[a].pc = "waiting"
    /\ offsets[a] > 1
    /\ redeliveries < MaxRedeliveries
    /\ offsets' = [offsets EXCEPT ![a] = @ - 1]
    /\ redeliveries' = redeliveries + 1
    /\ UNCHANGED <<clock, calls, topics, listener, store, logged, orphaned, modVars, orch, toolVars>>

\* Line 228: _handle_message returns None or a mapping
HandlerReturn(a, response) ==
    /\ listener[a].pc = "handling"
    /\ listener' = [listener EXCEPT ![a].pc = "returned", ![a].response = response]
    /\ UNCHANGED <<clock, calls, topics, offsets, redeliveries, store, logged, orphaned, modVars, orch, toolVars>>

\* Mutant: the exception leaves the loop, the task ends
HandlerRaise_Terminates(a) ==
    /\ listener[a].pc = "handling"
    /\ listener' = [listener EXCEPT ![a] = [pc |-> "terminated", message |-> NoAgentMessage,
                                            response |-> None]]
    /\ logged' = [logged EXCEPT ![a] = @ + 1]
    /\ UNCHANGED <<clock, calls, topics, offsets, redeliveries, store, orphaned, modVars, orch, toolVars>>

\* Lines 237-238: _handle_message raises, the loop logs it and goes on
HandlerRaise(a) ==
    /\ listener[a].pc = "handling"
    /\ listener' = [listener EXCEPT ![a] = [pc |-> "waiting", message |-> NoAgentMessage,
                                            response |-> None]]
    /\ logged' = [logged EXCEPT ![a] = @ + 1]
    /\ UNCHANGED <<clock, calls, topics, offsets, redeliveries, store, orphaned, modVars, orch, toolVars>>

\* The calls that sent message m, and whether they have all given up on the answer
Requesters(m) == {c \in CallIds : calls[c].pc # "init" /\ calls[c].message = m}
RequesterTimedOut(m) ==
    /\ Requesters(m) # {}
    /\ \A c \in Requesters(m) : calls[c].pc = "done" /\ calls[c].result = None

\* Lines 230-236: store the response under response:{correlation_id} for 60 seconds
StoreResponse(a) ==
    /\ listener[a].pc = "returned"
    /\ LET m == listener[a].message
       IN IF TruthyStr(m.correlation_id) /\ TruthyDict(listener[a].response)
          THEN /\ store' = RedisSetex(store, ResponseKey(m.correlation_id), ResponseTTL,
                                      JsonDumps(listener[a].response))
               /\ orphaned' = IF RequesterTimedOut(m)
                              THEN orphaned \cup {ResponseKey(m.correlation_id)}
                              ELSE orphaned \ {ResponseKey(m.correlation_id)}
          ELSE UNCHANGED <<store, orphaned>>
    /\ listener' = [listener EXCEPT ![a] = [pc |-> "waiting", message |-> NoAgentMessage,
                                            response |-> None]]
    /\ UNCHANGED <<clock, calls, topics, offsets, redeliveries, logged, modVars, orch, toolVars>>

\* One requester: a single collaborate_with_agent call, to any agent, and its wait
CollabNext ==
    \/ \E sender \in Callers, target \in Agents : StartCall(1, sender, target, "request", 1)
    \/ \E c \in CallIds : Poll(c)
    \/ Tick
    \/ \E a \in Agents : Receive(a)
    \/ \E a \in Agents : Redeliver(a)
    \/ \E a \in Agents : \E response \in HandlerReturns(listener[a].message) :
          HandlerReturn(a, response)
    \/ \E a \in Agents : HandlerRaise(a)
    \/ \E a \in Agents : StoreResponse(a)

\* The mailbox loops within one second: the request of one call and the messages of
\* other producers, delivered at least once
MailboxNext ==
    \/ \E sender \in Callers, target \in Agents : StartCall(1, sender, target, "request", 1)
    \/ \E c \in CallIds : Poll(c)
    \/ \E a \in Agents : ExternalPublish(a, "notice")
    \/ \E a \in Agents : Receive(a)
    \/ \E a \in Agents : Redeliver(a)
    \/ \E a \in Agents : \E response \in HandlerReturns(listener[a].message) :
          HandlerReturn(a, response)
    \/ \E a \in Agents : HandlerRaise(a)
    \/ \E a \in Agents : StoreResponse(a)

\* Concurrent requesters: the calls of CallIds, issued within one second
ConcurrentNext ==
    \/ \E c \in CallIds, sender \in Callers, target \in ConcurrentTargets :
          StartCall(c, sender, target, "request", c)
    \/ \E c \in CallIds : Poll(c)
    \/ Tick
    \/ \E a \in Agents : Receive(a)
    \/ \E a \in Agents : Redeliver(a)
    \/ \E a \in Agents : \E response \in HandlerReturns(listener[a].message) :
          HandlerReturn(a, response)
    \/ \E a \in Agents : HandlerRaise(a)
    \/ \E a \in Agents : StoreResponse(a)

----------------------------------------------------------------------------
(* Moderation: thresholds, tool outputs, the decision *)

\* self.thresholds as set by __init__
DefaultThresholds ==
    [toxicity |-> 70, hate_speech |-> 80, misinformation |-> 60, nsfw |-> 80]

\* The fixed flag cutoff of the elif branch (0.5)
FlagCutoff == 50

\* Bounds of the inputs
MaxUpdateKeys == 2
UpdateKeys == {"toxicity", "hate_speech", "misinformation", "nsfw", "spam"}
ThresholdChoices ==
    [toxicity |-> {55, 90}, misinformation |-> {55, 90}, hate_speech |-> {90},
     nsfw |-> {50}, spam |-> {55}]
ToxicityScores == {0, 50, 60, 70, 80}
MisinformationScores == {0, 60, 70}

\* The "thresholds" mappings a message may carry: any keys (at most MaxUpdateKeys
\* of them, known or not), each with one of its values
UpdatePayloads ==
    UNION {{f \in [S -> UNION {ThresholdChoices[k] : k \in S}] :
               \A k \in S : f[k] \in ThresholdChoices[k]} :
           S \in {T \in SUBSET UpdateKeys : Cardinality(T) <= MaxUpdateKeys}}

\* message.content of an update_thresholds message: with or without "thresholds"
UpdateContents == {EmptyDict} \cup {[thresholds |-> t] : t \in UpdatePayloads}

\* A tool's output string, by what json.loads makes of it: decodes = FALSE when
\* json.loads raises, else data is the decoded object (keys may be absent).
Opt(k, Vals) == {EmptyDict} \cup {[x \in {k} |-> v] : v \in Vals}
Undecodable == [decodes |-> FALSE, data |-> EmptyDict]
Decoded(D) == {[decodes |-> TRUE, data |-> d] : d \in D}
ToxicityOutputs ==
    {Undecodable} \cup
    Decoded({a @@ b : a \in Opt("toxicity_score", ToxicityScores), b \in Opt("toxic", BOOLEAN)})
FactOutputs ==
    {Undecodable} \cup
    Decoded({a @@ b : a \in Opt("misinformation_score", MisinformationScores),
                      b \in Opt("needs_review", BOOLEAN)})
NSFWOutputs ==
    {Undecodable} \cup Decoded(Opt("nsfw_detected", BOOLEAN))

\* Mutant: toxicity compared with >= instead of >
DecideAction_InclusiveToxicity(toxicity_data, fact_data, nsfw_data, t) ==
    IF \/ Get(toxicity_data, "toxicity_score", 0) >= t["toxicity"]
       \/ Get(fact_data, "misinformation_score", 0) > t["misinformation"]
       \/ Get(nsfw_data, "nsfw_detected", FALSE)
    THEN "reject"
    ELSE IF \/ Get(toxicity_data, "toxicity_score", 0) > FlagCutoff
            \/ Get(fact_data, "needs_review", FALSE)
         THEN "flag"
         ELSE "approve"

\* Mutant: toxicity compared with the hate_speech cutoff
DecideAction_WrongKey(toxicity_data, fact_data, nsfw_data, t) ==
    IF \/ Get(toxicity_data, "toxicity_score", 0) > t["hate_speech"]
       \/ Get(fact_data, "misinformation_score", 0) > t["misinformation"]
       \/ Get(nsfw_data, "nsfw_detected", FALSE)
    THEN "reject"
    ELSE IF \/ Get(toxicity_data, "toxicity_score", 0) > FlagCutoff
            \/ Get(fact_data, "needs_review", FALSE)
         THEN "flag"
         ELSE "approve"

\* Mutant: the elif branch looks at needs_review only
DecideAction_FlagOnReviewOnly(toxicity_data, fact_data, nsfw_data, t) ==
    IF \/ Get(toxicity_data, "toxicity_score", 0) > t["toxicity"]
       \/ Get(fact_data, "misinformation_score", 0) > t["misinformation"]
       \/ Get(nsfw_data, "nsfw_detected", FALSE)
    THEN "reject"
    ELSE IF Get(fact_data, "needs_review", FALSE)
         THEN "flag"
         ELSE "approve"

\* Mutant: the misinformation cutoff is read from the table as it was at construction,
\* the toxicity cutoff from the current table
DecideAction_TornRead(toxicity_data, fact_data, nsfw_data, t) ==
    IF \/ Get(toxicity_data, "toxicity_score", 0) > t["toxicity"]
       \/ Get(fact_data, "misinformation_score", 0) > DefaultThresholds["misinformation"]
       \/ Get(nsfw_data, "nsfw_detected", FALSE)
    THEN "reject"
    ELSE IF \/ Get(toxicity_data, "toxicity_score", 0) > FlagCutoff
            \/ Get(fact_data, "needs_review", FALSE)
         THEN "flag"
         ELSE "approve"

\* Mutant: a toxicity score above the hate_speech cutoff rejects as well
DecideAction_HateSpeechCutoff(toxicity_data, fact_data, nsfw_data, t) ==
    IF \/ Get(toxicity_data, "toxicity_score", 0) > t["toxicity"]
       \/ Get(toxicity_data, "toxicity_score", 0) > t["hate_speech"]
       \/ Get(fact_data, "misinformation_score", 0) > t["misinformation"]
       \/ Get(nsfw_data, "nsfw_detected", FALSE)
    THEN "reject"
    ELSE IF \/ Get(toxicity_data, "toxicity_score", 0) > FlagCutoff
            \/ Get(fact_data, "needs_review", FALSE)
         THEN "flag"
         ELSE "approve"

\* Mutant: needs_review is looked at before the reject conditions
DecideAction_ReviewFirst(toxicity_data, fact_data, nsfw_data, t) ==
    IF Get(fact_data, "needs_review", FALSE)
    THEN "flag"
    ELSE IF \/ Get(toxicity_data, "toxicity_score", 0) > t["toxicity"]
            \/ Get(fact_data, "misinformation_score", 0) > t["misinformation"]
            \/ Get(nsfw_data, "nsfw_detected", FALSE)
         THEN "reject"
         ELSE IF Get(toxicity_data, "toxicity_score", 0) > FlagCutoff
              THEN "flag"
              ELSE "approve"

\* Mutant: a missing nsfw_detected key counts as detected
DecideAction_MissingIsUnsafe(toxicity_data, fact_data, nsfw_data, t) ==
    IF \/ Get(toxicity_data, "toxicity_score", 0) > t["toxicity"]
       \/ Get(fact_data, "misinformation_score", 0) > t["misinformation"]
       \/ Get(nsfw_data, "nsfw_detected", TRUE)
    THEN "reject"
    ELSE IF \/ Get(toxicity_data, "toxicity_score", 0) > FlagCutoff
            \/ Get(fact_data, "needs_review", FALSE)
         THEN "flag"
         ELSE "approve"

\* Lines 289-296: the action computed from the decoded tool outputs and the table t
DecideAction(toxicity_data, fact_data, nsfw_data, t) ==
    IF \/ Get(toxicity_data, "toxicity_score", 0) > t["toxicity"]
       \/ Get(fact_data, "misinformation_score", 0) > t["misinformation"]
       \/ Get(nsfw_data, "nsfw_detected", FALSE)
    THEN "reject"
    ELSE IF \/ Get(toxicity_data, "toxicity_score", 0) > FlagCutoff
            \/ Get(fact_data, "needs_review", FALSE)
         THEN "flag"
         ELSE "approve"

\* Lines 298-308: the ContentAnalysis of the normal path
NormalAnalysis(toxicity_data, fact_data, nsfw_data, action) ==
    [toxicity_score       |-> Get(toxicity_data, "toxicity_score", 0),
     hate_speech_detected |-> Get(toxicity_data, "toxic", FALSE),
     misinformation_score |-> Get(fact_data, "misinformation_score", 0),
     nsfw_detected        |-> Get(nsfw_data, "nsfw_detected", FALSE),
     action               |-> action,
     reasoning            |-> "llm_output"]

\* Mutant: the except branch lets the content through
ErrorAnalysis_Approve ==
    [toxicity_score       |-> 0,
     hate_speech_detected |-> FALSE,
     misinformation_score |-> 0,
     nsfw_detected        |-> FALSE,
     action               |-> "approve",
     reasoning            |-> "Error during analysis"]

\* Lines 327-337: the ContentAnalysis of the except branch
ErrorAnalysis ==
    [toxicity_score       |-> 0,
     hate_speech_detected |-> FALSE,
     misinformation_score |-> 0,
     nsfw_detected        |-> FALSE,
     action               |-> "flag",
     reasoning            |-> "Error during analysis"]

NoAnalysis ==
    [toxicity_score |-> 0, hate_speech_detected |-> FALSE, misinformation_score |-> 0,
     nsfw_detected |-> FALSE, action |-> "none", reasoning |-> "none"]

\* Locals of one activation of analyze_content
NoLocals ==
    [toxicity_data |-> Undecodable, fact_data |-> Undecodable, nsfw_data |-> Undecodable,
     action |-> "unset", analysis |-> NoAnalysis]

\* Lines 276-337: from the tool outputs to the returned record. The three json.loads
\* come first; an exception in the try block (here: a tool output that does not
\* decode) leads to the except branch.
AnalyzeLocals(tox, fact, nsfw, t) ==
    LET decoded == tox.decodes /\ fact.decodes /\ nsfw.decodes
        action  == IF decoded THEN DecideAction(tox.data, fact.data, nsfw.data, t)
                   ELSE "unset"
    IN [toxicity_data |-> tox, fact_data |-> fact, nsfw_data |-> nsfw,
        action   |-> action,
        analysis |-> IF decoded
                     THEN NormalAnalysis(tox.data, fact.data, nsfw.data, action)
                     ELSE ErrorAnalysis]

\* Responses a handler returns (None, or a mapping tagged by what it holds)
NoResponse == [kind |-> "None"]
StatisticsResponse == [kind |-> "statistics", total_analyzed |-> 10000]
ThresholdsResponse(t) == [kind |-> "thresholds_updated", new_thresholds |-> t]
AnalysisResponse(a) == [kind |-> "analysis", analysis |-> a]

NoMessage == [message_type |-> "none", content |-> EmptyDict]

\* Between `return analysis` (or a raise) and the caller's next await nothing else
\* is scheduled: the record is handed over within one uninterrupted step of the
\* event loop. The model shows that step's end as a position of its own.
Handing(pc) == pc \in {"returned", "raised"}
LoopQuiet == ~Handing(direct.pc) /\ ~Handing(mailbox.pc)

ModInit ==
    /\ thresholds = DefaultThresholds
    /\ direct = [pc |-> "idle", locals |-> NoLocals]
    /\ mailbox = [pc |-> "waiting", msg |-> NoMessage, locals |-> NoLocals,
                  response |-> NoResponse]

(* analyze_content called directly (main.py:159) *)

\* Lines 253-273: build the prompt and await process_task
DirectCall ==
    /\ LoopQuiet
    /\ direct.pc = "idle"
    /\ direct' = [direct EXCEPT !.pc = "process_task"]
    /\ UNCHANGED <<thresholds, mailbox, collabVars, orch, toolVars>>

\* Line 273: process_task re-raises the executor's exception (base_agent.py:178),
\* outside the try block of analyze_content
DirectProcessTaskRaises ==
    /\ LoopQuiet
    /\ direct.pc = "process_task"
    /\ direct' = [direct EXCEPT !.pc = "raised"]
    /\ UNCHANGED <<thresholds, mailbox, collabVars, orch, toolVars>>

\* Lines 276-337 with process_task's result in hand
DirectDecide ==
    /\ LoopQuiet
    /\ direct.pc = "process_task"
    /\ \E tox \in ToxicityOutputs, fact \in FactOutputs, nsfw \in NSFWOutputs :
          direct' = [pc |-> "returned",
                     locals |-> AnalyzeLocals(tox, fact, nsfw, thresholds)]
    /\ UNCHANGED <<thresholds, mailbox, collabVars, orch, toolVars>>

\* The caller goes on (main.py:160)
DirectResume ==
    /\ Handing(direct.pc)
    /\ direct' = [pc |-> "idle", locals |-> NoLocals]
    /\ UNCHANGED <<thresholds, mailbox, collabVars, orch, toolVars>>

(* _handle_message of the moderator, called by the mailbox loop *)

\* Lines 381-385
HandleUpdateThresholds(content) ==
    /\ LoopQuiet
    /\ mailbox.pc = "waiting"
    /\ thresholds' = DictUpdate(thresholds, Get(content, "thresholds", EmptyDict))
    /\ mailbox' = [pc |-> "returned",
                   msg |-> [message_type |-> "update_thresholds", content |-> content],
                   locals |-> NoLocals,
                   response |-> ThresholdsResponse(thresholds')]
    /\ UNCHANGED <<direct, collabVars, orch, toolVars>>

\* Lines 387-396
HandleGetStatistics ==
    /\ LoopQuiet
    /\ mailbox.pc = "waiting"
    /\ mailbox' = [pc |-> "returned",
                   msg |-> [message_type |-> "get_statistics", content |-> EmptyDict],
                   locals |-> NoLocals,
                   response |-> StatisticsResponse]
    /\ UNCHANGED <<thresholds, direct, collabVars, orch, toolVars>>

\* Line 398: any other message_type
HandleOther ==
    /\ LoopQuiet
    /\ mailbox.pc = "waiting"
    /\ mailbox' = [pc |-> "returned",
                   msg |-> [message_type |-> "ping", content |-> EmptyDict],
                   locals |-> NoLocals,
                   response |-> NoResponse]
    /\ UNCHANGED <<thresholds, direct, collabVars, orch, toolVars>>

\* Lines 377-378: analyze_content awaits process_task inside the handler
HandleModerateContent ==
    /\ LoopQuiet
    /\ mailbox.pc = "waiting"
    /\ mailbox' = [pc |-> "process_task",
                   msg |-> [message_type |-> "moderate_content", content |-> EmptyDict],
                   locals |-> NoLocals,
                   response |-> NoResponse]
    /\ UNCHANGED <<thresholds, direct, collabVars, orch, toolVars>>

\* Lines 378-379: analyze_content returns, the handler returns analysis.dict()
HandlerDecide ==
    /\ LoopQuiet
    /\ mailbox.pc = "process_task"
    /\ \E tox \in ToxicityOutputs, fact \in FactOutputs, nsfw \in NSFWOutputs :
          LET l == AnalyzeLocals(tox, fact, nsfw, thresholds)
          IN mailbox' = [mailbox EXCEPT !.pc = "returned", !.locals = l,
                                        !.response = AnalysisResponse(l.analysis)]
    /\ UNCHANGED <<thresholds, direct, collabVars, orch, toolVars>>

\* process_task raises inside the handler: the loop's except logs it (base_agent.py:237)
HandlerProcessTaskRaises ==
    /\ LoopQuiet
    /\ mailbox.pc = "process_task"
    /\ mailbox' = [mailbox EXCEPT !.pc = "raised"]
    /\ UNCHANGED <<thresholds, direct, collabVars, orch, toolVars>>

\* The loop takes up the next message (base_agent.py:225)
MailboxContinue ==
    /\ Handing(mailbox.pc)
    /\ mailbox' = [pc |-> "waiting", msg |-> NoMessage, locals |-> NoLocals,
                   response |-> NoResponse]
    /\ UNCHANGED <<thresholds, direct, collabVars, orch, toolVars>>

ModNext ==
    \/ DirectCall
    \/ DirectProcessTaskRaises
    \/ DirectDecide
    \/ DirectResume
    \/ \E content \in UpdateContents : HandleUpdateThresholds(content)
    \/ HandleGetStatistics
    \/ HandleOther
    \/ HandleModerateContent
    \/ HandlerDecide
    \/ HandlerProcessTaskRaises
    \/ MailboxContinue

----------------------------------------------------------------------------
(* Response parsers of AutoGenOrchestrator (autogen_orchestrator.py) *)

\* A text is a sequence of characters. The texts of the model are made of at most
\* MaxPieces of these pieces.
MaxPieces == 3
Pieces ==
    {<<"{">>,
     <<"}">>,
     <<"{", "\"", "a", "\"", ":", "1", "}">>,
     <<"\"", "a", "\"", ":", "1">>,
     <<",", " ", "\"", "b", "\"", ":", "\"", "x", "\"">>,
     <<" ", "n", "o", "i", "s", "e", " ">>,
     <<"S", "P", "A", "M">>,
     <<"H", "a", "r", "m", "f", "u", "l">>,
     <<"i", "n", "a", "p", "p", "r", "o", "p", "r", "i", "a", "t", "e">>}

RECURSIVE TextsOf(_)
TextsOf(n) == IF n = 0 THEN {<<>>} ELSE {t \o p : t \in TextsOf(n - 1), p \in Pieces}
Texts == UNION {TextsOf(n) : n \in 0..MaxPieces}

\* str.lower(), on the letters of the texts
UpperLetters ==
    <<"A", "B", "C", "D", "E", "F", "G", "H", "I", "J", "K", "L", "M",
      "N", "O", "P", "Q", "R", "S", "T", "U", "V", "W", "X", "Y", "Z">>
LowerLetters ==
    <<"a", "b", "c", "d", "e", "f", "g", "h", "i", "j", "k", "l", "m",
      "n", "o", "p", "q", "r", "s", "t", "u", "v", "w", "x", "y", "z">>
LowerChar(ch) ==
    IF \E i \in DOMAIN UpperLetters : UpperLetters[i] = ch
    THEN LowerLetters[CHOOSE i \in DOMAIN UpperLetters : UpperLetters[i] = ch]
    ELSE ch
Lower(text) == [i \in DOMAIN text |-> LowerChar(text[i])]

\* ch in text
HasChar(text, ch) == \E i \in DOMAIN text : text[i] = ch

\* word in text: the words that start at some position of the text
RECURSIVE StartsAt(_, _, _)
StartsAt(text, word, i) ==
    IF word = <<>> THEN TRUE
    ELSE IF i > Len(text) THEN FALSE
    ELSE text[i] = Head(word) /\ StartsAt(text, Tail(word), i + 1)
RECURSIVE InFrom(_, _, _)
InFrom(word, text, i) ==
    IF i > Len(text) + 1 THEN FALSE
    ELSE StartsAt(text, word, i) \/ InFrom(word, text, i + 1)
In(word, text) == InFrom(word, text, 1)

\* str.find / str.rfind: the 0-based index of the first / last occurrence, or -1
RECURSIVE FindFrom(_, _, _)
FindFrom(text, ch, i) ==
    IF i > Len(text) THEN -1
    ELSE IF text[i] = ch THEN i - 1 ELSE FindFrom(text, ch, i + 1)
Find(text, ch) == FindFrom(text, ch, 1)

\* Mutant: the first occurrence is taken for the last
RFind_First(text, ch) == Find(text, ch)

RECURSIVE RFindFrom(_, _, _)
RFindFrom(text, ch, i) ==
    IF i < 1 THEN -1
    ELSE IF text[i] = ch THEN i - 1 ELSE RFindFrom(text, ch, i - 1)
RFind(text, ch) == RFindFrom(text, ch, Len(text))

\* text[start:end] for 0 <= start, 0 <= end: empty when end <= start
Slice(text, start, end) ==
    IF end <= start THEN <<>>
    ELSE SubSeq(text, start + 1, IF end > Len(text) THEN Len(text) ELSE end)

\* What a call comes to: a returned value or a raised exception
Return(v) == [raises |-> FALSE, value |-> v]
Raise(e) == [raises |-> TRUE, value |-> e]

\* Python values: a dict with its items, a str with its characters, an int
PyDict(items) == [type |-> "dict", items |-> items]
PyStr(chars) == [type |-> "str", chars |-> chars]
PyInt(n) == [type |-> "int", n |-> n]
\* d[k] = v
Put(d, k, v) == [x \in (DOMAIN d) \cup {k} |-> IF x = k THEN v ELSE d[x]]

(* json.loads on a text: objects, strings and integers, separated by blanks (the *)
(* texts of the model hold no other JSON)                                        *)
JsonDigits == {"0", "1", "2", "3", "4", "5", "6", "7", "8", "9"}
DigitValue(ch) == CHOOSE n \in 0..9 : <<"0", "1", "2", "3", "4", "5", "6", "7", "8", "9">>[n + 1] = ch
\* The character at position i, or "" past the end
CharAt(text, i) == IF i \in DOMAIN text THEN text[i] ELSE ""
\* A scan result: whether it succeeded, the value read, the position after it
Scanned(v, next) == [ok |-> TRUE, value |-> v, next |-> next]
ScanFails == [ok |-> FALSE, value |-> PyInt(0), next |-> 0]

RECURSIVE SkipBlanks(_, _)
SkipBlanks(text, i) == IF CharAt(text, i) = " " THEN SkipBlanks(text, i + 1) ELSE i

\* A string: from the quote at i to the next quote
ScanString(text, i) ==
    LET close == FindFrom(text, "\"", i + 1)
    IN IF close = -1 THEN ScanFails
       ELSE Scanned(PyStr(SubSeq(text, i + 1, close)), close + 2)

\* An integer: 0, or a run of digits that does not start with 0
RECURSIVE DigitsEnd(_, _)
DigitsEnd(text, i) == IF CharAt(text, i) \in JsonDigits THEN DigitsEnd(text, i + 1) ELSE i
RECURSIVE NatOf(_)
NatOf(digits) ==
    IF digits = <<>> THEN 0
    ELSE 10 * NatOf(SubSeq(digits, 1, Len(digits) - 1)) + DigitValue(digits[Len(digits)])
ScanNumber(text, i) ==
    LET end == IF text[i] = "0" THEN i + 1 ELSE DigitsEnd(text, i)
    IN Scanned(PyInt(NatOf(SubSeq(text, i, end - 1))), end)

RECURSIVE ScanValue(_, _), ScanMembers(_, _, _)
\* A value that starts at position i
ScanValue(text, i) ==
    CASE CharAt(text, i) = "{" ->
           LET j == SkipBlanks(text, i + 1)
           IN IF CharAt(text, j) = "}" THEN Scanned(PyDict(<<>>), j + 1)
              ELSE ScanMembers(text, j, <<>>)
      [] CharAt(text, i) = "\"" -> ScanString(text, i)
      [] CharAt(text, i) \in JsonDigits -> ScanNumber(text, i)
      [] OTHER -> ScanFails
\* The members of an object from position i on, after the items read so far; a
\* key that comes again overwrites
ScanMembers(text, i, items) ==
    IF CharAt(text, i) # "\"" THEN ScanFails
    ELSE LET key == ScanString(text, i)
         IN IF ~key.ok THEN ScanFails
            ELSE LET colon == SkipBlanks(text, key.next)
                 IN IF CharAt(text, colon) # ":" THEN ScanFails
                    ELSE LET v == ScanValue(text, SkipBlanks(text, colon + 1))
                         IN IF ~v.ok THEN ScanFails
                            ELSE LET d == Put(items, key.value.chars, v.value)
                                     e == SkipBlanks(text, v.next)
                                 IN CASE CharAt(text, e) = "," ->
                                           ScanMembers(text, SkipBlanks(text, e + 1), d)
                                      [] CharAt(text, e) = "}" -> Scanned(PyDict(d), e + 1)
                                      [] OTHER -> ScanFails

\* json.loads(text): the value of the whole text, or JSONDecodeError
JsonLoadsText(text) ==
    LET v == ScanValue(text, SkipBlanks(text, 1))
    IN IF v.ok /\ SkipBlanks(text, v.next) = Len(text) + 1
       THEN Return(v.value)
       ELSE Raise("JSONDecodeError")

(* The four _parse_*_response functions *)

\* Lines 333-337 (and 360-364, 386-390, 412-416): the text from the first '{' to
\* the last '}' is handed to json.loads. Only called when both occur.
ExtractJson(response) ==
    LET start == Find(response, "{")
        end == RFind(response, "}") + 1
        json_str == Slice(response, start, end)
    IN JsonLoadsText(json_str)

BothBraces(response) == HasChar(response, "{") /\ HasChar(response, "}")

\* The words of line 341
Keywords ==
    {<<"i", "n", "a", "p", "p", "r", "o", "p", "r", "i", "a", "t", "e">>,
     <<"h", "a", "r", "m", "f", "u", "l">>,
     <<"s", "p", "a", "m">>}

\* Mutant: the words are looked for in the text as it is
ModerationFallback_CaseSensitive(response) ==
    PyDict([status |-> IF \E word \in Keywords : In(word, response)
                      THEN "FLAGGED" ELSE "APPROVED",
            score |-> 50,
            reasoning |-> response,
            issues |-> <<>>,
            recommendations |-> <<>>])

\* Lines 340-346: the record returned when the braces are not both there
ModerationFallback(response) ==
    PyDict([status |-> IF \E word \in Keywords : In(word, Lower(response))
                      THEN "FLAGGED" ELSE "APPROVED",
            score |-> 50,
            reasoning |-> response,
            issues |-> <<>>,
            recommendations |-> <<>>])

\* Lines 349-355: the record returned by the except branch
ModerationError(response) ==
    PyDict([status |-> "ERROR", score |-> 0, reasoning |-> response, issues |-> <<>>,
            recommendations |-> <<>>])

\* Mutant: no except branch, the exception of json.loads leaves the function
ParseModerationResponse_Unguarded(response) ==
    IF BothBraces(response) THEN ExtractJson(response)
    ELSE Return(ModerationFallback(response))

\* _parse_moderation_response (lines 329-355)
ParseModerationResponse(response) ==
    LET try == IF BothBraces(response) THEN ExtractJson(response)
               ELSE Return(ModerationFallback(response))
    IN IF try.raises THEN Return(ModerationError(response)) ELSE try

\* Lines 366-372 and 375-381
PersonalizationFallback ==
    PyDict([topics |-> <<>>, creators |-> <<>>, trending |-> <<>>, strategies |-> <<>>,
            score |-> 50])
PersonalizationError ==
    PyDict([topics |-> <<>>, creators |-> <<>>, trending |-> <<>>, strategies |-> <<>>,
            score |-> 0])

\* Mutant: a decode failure falls back to the record of a text without braces
ParsePersonalizationResponse_FallsBack(response) ==
    LET try == IF BothBraces(response) THEN ExtractJson(response)
               ELSE Return(PersonalizationFallback)
    IN IF try.raises THEN Return(PersonalizationFallback) ELSE try

\* _parse_personalization_response (lines 357-381)
ParsePersonalizationResponse(response) ==
    LET try == IF BothBraces(response) THEN ExtractJson(response)
               ELSE Return(PersonalizationFallback)
    IN IF try.raises THEN Return(PersonalizationError) ELSE try

\* Mutant: the record of a text without braces has zero scores
GenerationFallback_Zero(response) ==
    PyDict([content |-> response, alternatives |-> <<>>, quality_score |-> 0,
            engagement_score |-> 0, hashtags |-> <<>>])

\* Lines 392-398 and 401-407
GenerationFallback(response) ==
    PyDict([content |-> response, alternatives |-> <<>>, quality_score |-> 50,
            engagement_score |-> 50, hashtags |-> <<>>])
GenerationError(response) ==
    PyDict([content |-> response, alternatives |-> <<>>, quality_score |-> 0,
            engagement_score |-> 0, hashtags |-> <<>>])

\* _parse_generation_response (lines 383-407)
ParseGenerationResponse(response) ==
    LET try == IF BothBraces(response) THEN ExtractJson(response)
               ELSE Return(GenerationFallback(response))
    IN IF try.raises THEN Return(GenerationError(response)) ELSE try

\* Lines 418-425 and 428-435 (the same record)
AnalysisFallback ==
    PyDict([sentiment |-> PyDict([label |-> "neutral", confidence |-> 0]),
            topics |-> <<>>, language |-> "unknown", readability |-> 0,
            ai_probability |-> 0, cultural_context |-> PyDict(<<>>)])
AnalysisError ==
    PyDict([sentiment |-> PyDict([label |-> "neutral", confidence |-> 0]),
            topics |-> <<>>, language |-> "unknown", readability |-> 0,
            ai_probability |-> 0, cultural_context |-> PyDict(<<>>)])

\* _parse_analysis_response (lines 409-435)
ParseAnalysisResponse(response) ==
    LET try == IF BothBraces(response) THEN ExtractJson(response)
               ELSE Return(AnalysisFallback)
    IN IF try.raises THEN Return(AnalysisError) ELSE try

\* Lines 186-192: the record moderate_content returns from its except branch
ModerationFailed(e) ==
    PyDict([status |-> "ERROR", score |-> 0, reasoning |-> <<"Moderation failed", e>>,
            issues |-> <<>>, recommendations |-> <<>>])

\* moderate_content (lines 163-192) for an outcome of _run_agent_task: the agent's
\* text, or the exception it re-raises (line 317)
ModerateContent(agent) ==
    LET try == IF agent.raises THEN agent ELSE ParseModerationResponse(agent.value)
    IN IF try.raises THEN Return(ModerationFailed(try.value)) ELSE try

(* The orchestrator's operations on one text *)

NoOutcome == Return(PyDict(<<>>))
NoOrchestration == [pc |-> "idle", op |-> "none", response |-> <<>>, outcome |-> NoOutcome]

\* A text an agent has produced is at hand
ParserInit ==
    /\ ModInit
    /\ CollabInit
    /\ orch \in {[pc |-> "ready", op |-> "none", response |-> t, outcome |-> NoOutcome] :
                    t \in Texts}
    /\ ToolsIdle

ParseModeration ==
    /\ orch.pc = "ready"
    /\ orch' = [orch EXCEPT !.pc = "done", !.op = "_parse_moderation_response",
                            !.outcome = ParseModerationResponse(orch.response)]
    /\ UNCHANGED <<modVars, collabVars, toolVars>>

ParsePersonalization ==
    /\ orch.pc = "ready"
    /\ orch' = [orch EXCEPT !.pc = "done", !.op = "_parse_personalization_response",
                            !.outcome = ParsePersonalizationResponse(orch.response)]
    /\ UNCHANGED <<modVars, collabVars, toolVars>>

ParseGeneration ==
    /\ orch.pc = "ready"
    /\ orch' = [orch EXCEPT !.pc = "done", !.op = "_parse_generation_response",
                            !.outcome = ParseGenerationResponse(orch.response)]
    /\ UNCHANGED <<modVars, collabVars, toolVars>>

ParseAnalysis ==
    /\ orch.pc = "ready"
    /\ orch' = [orch EXCEPT !.pc = "done", !.op = "_parse_analysis_response",
                            !.outcome = ParseAnalysisResponse(orch.response)]
    /\ UNCHANGED <<modVars, collabVars, toolVars>>

\* Lines 165-181: moderate_content awaits _run_agent_task
ModerateContentCall ==
    /\ orch.pc = "ready"
    /\ orch' = [orch EXCEPT !.pc = "agent_task", !.op = "moderate_content"]
    /\ UNCHANGED <<modVars, collabVars, toolVars>>

\* Lines 181-182: the agent's text comes back and is parsed
AgentReplies ==
    /\ orch.pc = "agent_task"
    /\ orch' = [orch EXCEPT !.pc = "done",
                            !.outcome = ModerateContent(Return(orch.response))]
    /\ UNCHANGED <<modVars, collabVars, toolVars>>

\* Lines 315-317 and 184-192: the agent call raises
AgentRaises ==
    /\ orch.pc = "agent_task"
    /\ orch' = [orch EXCEPT !.pc = "done", !.op = "moderate_content_agent_raised",
                            !.outcome = ModerateContent(Raise("agent error"))]
    /\ UNCHANGED <<modVars, collabVars, toolVars>>

ParserNext ==
    \/ ParseModeration
    \/ ParsePersonalization
    \/ ParseGeneration
    \/ ParseAnalysis
    \/ ModerateContentCall
    \/ AgentReplies
    \/ AgentRaises

----------------------------------------------------------------------------
(* The handlers of the two agents, called by the mailbox loop *)

\* The message types each _handle_message has a branch for
Recognised ==
    [ContentModerator |-> {"moderate_content", "update_thresholds", "get_statistics"},
     PersonalizationEngine |-> {"generate_recommendations"}]
\* The message types sent to the agents
SentTypes ==
    {"moderate_content", "update_thresholds", "get_statistics",
     "generate_recommendations", "ping"}
\* message.content by message type
SentContents(type) == IF type = "update_thresholds" THEN UpdateContents ELSE {EmptyDict}

\* BaseModel.dict(): the mapping of a record's fields
AsDict(r) == {<<k, r[k]>> : k \in DOMAIN r}

\* content_moderation_agent.py lines 387-396
StatisticsDict ==
    {<<"total_analyzed", 10000>>, <<"approved", 8500>>, <<"flagged", 1000>>,
     <<"rejected", 500>>, <<"average_toxicity", 15>>}

\* Mutant: an unknown message type is answered with an error mapping
ModeratorHandleMessage_AnswersUnknown(m, t) ==
    CASE m.message_type = "moderate_content" ->
           {[response |-> Mapping(AsDict(AnalyzeLocals(tox, fact, nsfw, t).analysis)),
             thresholds |-> t] :
               tox \in ToxicityOutputs, fact \in FactOutputs, nsfw \in NSFWOutputs}
      [] m.message_type = "update_thresholds" ->
           LET new == DictUpdate(t, Get(m.content, "thresholds", EmptyDict))
           IN {[response |-> Mapping({<<"status", "thresholds_updated">>,
                                      <<"new_thresholds", new>>}),
                thresholds |-> new]}
      [] m.message_type = "get_statistics" ->
           {[response |-> Mapping(StatisticsDict), thresholds |-> t]}
      [] OTHER -> {[response |-> Mapping({<<"error", "unknown message_type">>}),
                    thresholds |-> t]}

\* ContentModerationAgent._handle_message (lines 375-398): the responses it can
\* return for message m under table t, each with the table it leaves
ModeratorHandleMessage(m, t) ==
    CASE m.message_type = "moderate_content" ->
           {[response |-> Mapping(AsDict(AnalyzeLocals(tox, fact, nsfw, t).analysis)),
             thresholds |-> t] :
               tox \in ToxicityOutputs, fact \in FactOutputs, nsfw \in NSFWOutputs}
      [] m.message_type = "update_thresholds" ->
           LET new == DictUpdate(t, Get(m.content, "thresholds", EmptyDict))
           IN {[response |-> Mapping({<<"status", "thresholds_updated">>,
                                      <<"new_thresholds", new>>}),
                thresholds |-> new]}
      [] m.message_type = "get_statistics" ->
           {[response |-> Mapping(StatisticsDict), thresholds |-> t]}
      [] OTHER -> {[response |-> None, thresholds |-> t]}

\* PersonalizationAgent._handle_message (personalization_agent.py lines 302-314)
PersonalizationHandleMessage(m, t) ==
    IF m.message_type = "generate_recommendations"
    THEN {[response |-> Mapping({<<"recommendations", <<>>>>, <<"generated_at", "now">>}),
           thresholds |-> t]}
    ELSE {[response |-> None, thresholds |-> t]}

\* The branches that await (process_task, generate_feed) and so can raise
Awaits == {"moderate_content", "generate_recommendations"}

\* base_agent.py line 228 with the agent's own handler: it returns
HandleMessage(a) ==
    /\ listener[a].pc = "handling"
    /\ \E out \in (IF a = "ContentModerator"
                    THEN ModeratorHandleMessage(listener[a].message, thresholds)
                    ELSE PersonalizationHandleMessage(listener[a].message, thresholds)) :
          /\ listener' = [listener EXCEPT ![a].pc = "returned",
                                          ![a].response = out.response]
          /\ thresholds' = out.thresholds
    /\ UNCHANGED <<direct, mailbox, clock, calls, topics, offsets, redeliveries, store,
                   logged, orphaned, orch, toolVars>>

\* base_agent.py lines 237-238 with the agent's own handler: an awaiting branch raises
HandleMessageRaises(a) ==
    /\ listener[a].message.message_type \in Recognised[a] \cap Awaits
    /\ HandlerRaise(a)

\* One request of any type to either agent, handled by the agent's own handler
DispatchNext ==
    \/ \E sender \in Callers, target \in Agents, type \in SentTypes :
          \E content \in SentContents(type) : StartCall(1, sender, target, type, content)
    \/ \E c \in CallIds : Poll(c)
    \/ \E a \in Agents : Receive(a)
    \/ \E a \in Agents : Redeliver(a)
    \/ \E a \in Agents : HandleMessage(a)
    \/ \E a \in Agents : HandleMessageRaises(a)
    \/ \E a \in Agents : StoreResponse(a)

(* Store and broker failures *)

\* Before BaseAgent.__init__ has run, no loop exists
InfraInit ==
    /\ ModInit
    /\ clock = [last |-> 0, fresh |-> FALSE]
    /\ calls = [c \in CallIds |-> NoCall]
    /\ topics = [a \in Agents |-> <<>>]
    /\ offsets = [a \in Agents |-> 1]
    /\ redeliveries = 0
    /\ listener = [a \in Agents |-> [pc |-> "unbuilt", message |-> NoAgentMessage,
                                     response |-> None]]
    /\ logged = [a \in Agents |-> 0]
    /\ orphaned = {}
    /\ store = <<>>
    /\ orch = NoOrchestration
    /\ ToolsIdle

Built(a) == listener[a].pc \notin {"unbuilt", "init_raised"}

\* base_agent.py lines 75-83: the clients are created and the loop's task is started
Construct(a) ==
    /\ listener[a].pc = "unbuilt"
    /\ listener' = [listener EXCEPT ![a].pc = "waiting"]
    /\ UNCHANGED <<clock, calls, topics, offsets, redeliveries, store, logged, orphaned,
                   modVars, orch, toolVars>>

\* Lines 75-79: redis.Redis or KafkaProducer raises; __init__ has no try, the
\* exception reaches whoever constructs the agent and no loop is started
ConstructRaises(a) ==
    /\ listener[a].pc = "unbuilt"
    /\ listener' = [listener EXCEPT ![a].pc = "init_raised"]
    /\ UNCHANGED <<clock, calls, topics, offsets, redeliveries, store, logged, orphaned,
                   modVars, orch, toolVars>>

\* collaborate_with_agent of a constructed agent
Collaborate(c, sender, target) ==
    /\ Built(sender)
    /\ StartCall(c, sender, target, "request", 1)

\* Line 207: redis_client.get raises; the for loop has no try, the exception leaves
\* collaborate_with_agent
PollRaises(c) ==
    /\ calls[c].pc = "poll"
    /\ calls[c].polls < MaxPolls
    /\ calls' = [calls EXCEPT ![c].pc = "raised"]
    /\ UNCHANGED <<clock, topics, offsets, redeliveries, listener, store, logged, orphaned,
                   modVars, orch, toolVars>>

\* Lines 232-238: redis_client.setex raises inside the try of the loop body; the
\* `except Exception` of line 237 logs it and the loop goes on
StoreResponseRaises(a) ==
    /\ listener[a].pc = "returned"
    /\ TruthyStr(listener[a].message.correlation_id)
    /\ TruthyDict(listener[a].response)
    /\ listener' = [listener EXCEPT ![a] = [pc |-> "waiting", message |-> NoAgentMessage,
                                            response |-> None]]
    /\ logged' = [logged EXCEPT ![a] = @ + 1]
    /\ UNCHANGED <<clock, calls, topics, offsets, redeliveries, store, orphaned, modVars, orch, toolVars>>

\* Construction, one call and the mailbox loops, with the store or the broker failing
InfraNext ==
    \/ \E a \in Agents : Construct(a)
    \/ \E a \in Agents : ConstructRaises(a)
    \/ \E sender \in Callers, target \in Agents : Collaborate(1, sender, target)
    \/ \E c \in CallIds : Poll(c)
    \/ \E c \in CallIds : PollRaises(c)
    \/ Tick
    \/ \E a \in Agents : Receive(a)
    \/ \E a \in Agents : \E response \in HandlerReturns(listener[a].message) :
          HandlerReturn(a, response)
    \/ \E a \in Agents : HandlerRaise(a)
    \/ \E a \in Agents : StoreResponse(a)
    \/ \E a \in Agents : StoreResponseRaises(a)

----------------------------------------------------------------------------
(* The shared conversation: INIT -> ROUND(n) -> ... -> TERMINATED.          *)
(* The roster, max_round = 50 and the termination test are those of         *)
(* AutoGenOrchestrator (autogen_orchestrator.py 109-150); the round loop    *)
(* and the bounds of normal tasks and crisis mode follow the specification. *)
(* Of the message list the model keeps the length and the last message.     *)

\* max_round of the group chat (line 137), of a normal task and of crisis mode
MaxRoundAutoGen == 50
MaxRoundNormal == 20
MaxRoundCrisis == 30
Variants == {"normal", "crisis", "autogen"}
MaxRound(variant) ==
    CASE variant = "normal" -> MaxRoundNormal
      [] variant = "crisis" -> MaxRoundCrisis
      [] variant = "autogen" -> MaxRoundAutoGen

\* agent_list (lines 125-131)
Roster ==
    <<"UserProxy", "ContentModerator", "PersonalizationEngine", "ContentGenerator",
      "TextAnalyzer">>

\* "TERMINATE" (line 115)
Token == <<"T", "E", "R", "M", "I", "N", "A", "T", "E">>

\* str.rstrip(): trailing whitespace removed
RECURSIVE RStrip(_)
RStrip(text) ==
    IF text # <<>> /\ text[Len(text)] \in {" ", "\n", "\t"}
    THEN RStrip(SubSeq(text, 1, Len(text) - 1))
    ELSE text

\* str.endswith(suffix)
EndsWith(text, suffix) ==
    /\ Len(suffix) <= Len(text)
    /\ SubSeq(text, Len(text) - Len(suffix) + 1, Len(text)) = suffix

\* Mutant: the token anywhere in the content ends the conversation
IsTerminationMsg_Contains(x) == In(Token, Get(x, "content", <<>>))

\* is_termination_msg (line 115): x.get("content", "").rstrip().endswith("TERMINATE")
IsTerminationMsg(x) == EndsWith(RStrip(Get(x, "content", <<>>)), Token)

\* What an agent may say: prose, the token alone, the token followed by blanks, the
\* token followed by prose, prose followed by the token, nothing
Contents ==
    {<<"o", "k">>,
     Token,
     Token \o <<" ", "\n">>,
     Token \o <<" ", "n", "o", "w">>,
     <<"o", "k", " ">> \o Token,
     <<>>}

\* A message of the conversation; one without content is possible (x.get default)
ChatMessage(name, content) == [name |-> name, content |-> content]
BareMessage(name) == [name |-> name]
NoChatMessage == [name |-> "none"]

\* A task, a crisis or a group chat has been handed to the conversation
ChatInit ==
    /\ ModInit
    /\ CollabInit
    /\ orch = NoOrchestration
    /\ insights = NoInsights
    /\ profile = NoProfile
    /\ task = NoTask
    /\ chat \in {[state |-> "INIT", variant |-> v, turns |-> 0, last |-> NoChatMessage] :
                    v \in Variants}

\* Strict round-robin in crisis mode, automatic selection otherwise
MaySpeak(name) ==
    IF chat.variant = "crisis"
    THEN name = Roster[(chat.turns % Len(Roster)) + 1]
    ELSE \E i \in DOMAIN Roster : name = Roster[i]

\* One turn: the speaker's message joins the conversation, which ends when the
\* message is a termination message or the round bound is reached
Speak(message) ==
    /\ chat.state \in {"INIT", "ROUND"}
    /\ MaySpeak(message.name)
    /\ chat' = [chat EXCEPT
                  !.turns = @ + 1,
                  !.last = message,
                  !.state = IF IsTerminationMsg(message)
                               \/ chat.turns + 1 = MaxRound(chat.variant)
                            THEN "TERMINATED" ELSE "ROUND"]
    /\ UNCHANGED <<modVars, collabVars, orch, insights, profile, task>>

SpeakContent == \E i \in DOMAIN Roster, c \in Contents : Speak(ChatMessage(Roster[i], c))
SpeakBare == \E i \in DOMAIN Roster : Speak(BareMessage(Roster[i]))

ChatNext ==
    \/ SpeakContent
    \/ SpeakBare

----------------------------------------------------------------------------
(* Insight extraction after termination. _extract_insights is not among the *)
(* sources; its messages and bucket names are those of test_insight_        *)
(* extraction (test_agents.py 289-301), the scan follows the specification. *)

MaxMessages == 3

\* The named categories
Buckets ==
    {"content_strategy", "ux_improvements", "economic_recommendations",
     "governance_actions", "safety_concerns"}

\* Mutant: the safety officer's messages are filed under governance
BucketOf_SafetyAsGovernance ==
    [ContentStrategist |-> "content_strategy",
     UXResearcher |-> "ux_improvements",
     EconomicAnalyst |-> "economic_recommendations",
     GovernanceAdvisor |-> "governance_actions",
     SafetyOfficer |-> "governance_actions"]

\* The role behind each category. The test names three of the senders; the names of
\* the other two roles stand for whatever the roster calls them.
BucketOf ==
    [ContentStrategist |-> "content_strategy",
     UXResearcher |-> "ux_improvements",
     EconomicAnalyst |-> "economic_recommendations",
     GovernanceAdvisor |-> "governance_actions",
     SafetyOfficer |-> "safety_concerns"]

\* The senders of a conversation: the five roles and the proxy that opens it
Senders == DOMAIN BucketOf \cup {"UserProxy"}

\* The contents of the test's messages
InsightContents ==
    {"We should focus on video content", "Increased spam detected",
     "Transaction volume is up 20%"}

InsightMessages == [name : Senders, content : InsightContents]

\* A terminated conversation of up to MaxMessages messages is handed over
InsightsInit ==
    /\ ModInit
    /\ CollabInit
    /\ orch = NoOrchestration
    /\ chat = NoChat
    /\ profile = NoProfile
    /\ task = NoTask
    /\ insights \in {[pc |-> "scanning", messages |-> ms, scanned |-> 0,
                      buckets |-> [b \in Buckets |-> <<>>]] :
                        ms \in UNION {[1..n -> InsightMessages] : n \in 0..MaxMessages}}

\* The scan looks at the next message and files its content under its sender's role
ScanMessage ==
    /\ insights.pc = "scanning"
    /\ insights.scanned < Len(insights.messages)
    /\ LET message == insights.messages[insights.scanned + 1]
       IN insights' =
            [insights EXCEPT
               !.scanned = @ + 1,
               !.buckets = IF message.name \in DOMAIN BucketOf
                           THEN [@ EXCEPT ![BucketOf[message.name]] =
                                            Append(@, message.content)]
                           ELSE @]
    /\ UNCHANGED <<modVars, collabVars, orch, chat, profile, task>>

\* All messages are scanned: the buckets are returned
ScanDone ==
    /\ insights.pc = "scanning"
    /\ insights.scanned = Len(insights.messages)
    /\ insights' = [insights EXCEPT !.pc = "done"]
    /\ UNCHANGED <<modVars, collabVars, orch, chat, profile, task>>

InsightsNext ==
    \/ ScanMessage
    \/ ScanDone

----------------------------------------------------------------------------
(* UserProfilerTool._run (personalization_agent.py 132-180) for one user.   *)
(* Interests are numbered; an interaction is known by its arrival number    *)
(* among the interactions filed into the profile.                           *)

\* [-100:] (line 151) and [-20:] (line 155)
HistoryLimit == 100
InterestLimit == 20
\* The interests beyond those a profile can hold, and the runs of the tool
ExtraInterests == 2
MaxRuns == 4

\* Interactions: one with InterestLimit categories, one with a further interest as
\* category and tag, one with neither key
SeedInteraction == [categories |-> [i \in 1..InterestLimit |-> i]]
FreshInteraction(j) ==
    [categories |-> <<InterestLimit + j>>, tags |-> <<InterestLimit + j>>]
PlainInteraction == EmptyDict
\* recent_interactions: a single interaction, or many plain ones
InteractionBatches ==
    {<<SeedInteraction>>, <<PlainInteraction>>,
     [i \in 1..(HistoryLimit - 1) |-> PlainInteraction]}
        \cup {<<FreshInteraction(j)>> : j \in 1..ExtraInterests}

\* The elements of a list
Elements(list) == {list[i] : i \in DOMAIN list}

\* _extract_interests (lines 182-192), as the set it builds before list(set(...))
ExtractInterests(interactions) ==
    UNION {Elements(Get(interactions[i], "categories", <<>>))
             \cup Elements(Get(interactions[i], "tags", <<>>)) : i \in DOMAIN interactions}

\* list[-n:]
Last(list, n) ==
    IF Len(list) <= n THEN list ELSE SubSeq(list, Len(list) - n + 1, Len(list))

\* Lines 150-151: extend, then keep the last 100
Recent(history, arrived, recent_interactions) ==
    Last(history \o [i \in DOMAIN recent_interactions |-> arrived + i], HistoryLimit)

\* The subsets of S with n elements
RECURSIVE SubsetsOfSize(_, _)
SubsetsOfSize(S, n) ==
    IF n = 0 THEN {{}}
    ELSE UNION {{D \cup {x} : D \in SubsetsOfSize(S \ {x}, n - 1)} : x \in S}

\* Line 155: list(set(profile.interests + interests))[-20:]. A set is listed in no
\* particular order, so the last 20 of the list are any 20 of the union (all of it
\* when it has no more); the order of the stored list is that of the set.
KeptInterests(old, seen) ==
    IF Cardinality(old \cup seen) <= InterestLimit
    THEN {old \cup seen}
    ELSE {(old \cup seen) \ dropped :
             dropped \in SubsetsOfSize(old \cup seen,
                                       Cardinality(old \cup seen) - InterestLimit)}

\* No profile is stored (redis get returns None, line 143)
ProfilerInit ==
    /\ ModInit
    /\ CollabInit
    /\ orch = NoOrchestration
    /\ chat = NoChat
    /\ insights = NoInsights
    /\ task = NoTask
    /\ profile = [stored |-> FALSE, interests |-> {}, interaction_history |-> <<>>,
                  arrived |-> 0, runs |-> 0, seen |-> {}, profile_updated |-> FALSE]

\* _run: the profile is read or created, updated and saved
ProfilerRun(recent_interactions) ==
    /\ profile.runs < MaxRuns
    /\ \E kept \in KeptInterests(profile.interests, ExtractInterests(recent_interactions)) :
          profile' =
            [stored |-> TRUE,
             interests |-> kept,
             interaction_history |-> Recent(profile.interaction_history, profile.arrived,
                                            recent_interactions),
             arrived |-> profile.arrived + Len(recent_interactions),
             runs |-> profile.runs + 1,
             seen |-> ExtractInterests(recent_interactions),
             profile_updated |-> TRUE]
    /\ UNCHANGED <<modVars, collabVars, orch, chat, insights, task>>

\* _run when the store raises (lines 178-180): nothing is saved
ProfilerRunRaises(recent_interactions) ==
    /\ profile.runs < MaxRuns
    /\ profile' = [profile EXCEPT
                     !.runs = @ + 1,
                     !.seen = ExtractInterests(recent_interactions),
                     !.profile_updated = FALSE]
    /\ UNCHANGED <<modVars, collabVars, orch, chat, insights, task>>

ProfilerNext ==
    \/ \E batch \in InteractionBatches : ProfilerRun(batch)
    \/ \E batch \in InteractionBatches : ProfilerRunRaises(batch)

----------------------------------------------------------------------------
(* BaseAgent.process_task (base_agent.py 156-178) and _log_metrics (245-248) *)

\* task[:100] (lines 164 and 174)
TaskPrefix == 100
MaxTasks == 2

\* Tasks of 0, 1, 100 and 101 characters
Tasks == {[i \in 1..n |-> "x"] : n \in {0, 1, TaskPrefix, TaskPrefix + 1}}

\* What agent_executor.ainvoke does: a result with an output, a result with an empty
\* output, a result without the key, or an exception
ExecutorOutcomes ==
    {[raises |-> FALSE, error |-> "none",
      result |-> [output |-> <<"T", "a", "s", "k", " ", "c", "o", "m", "p", "l", "e", "t", "e", "d">>]],
     [raises |-> FALSE, error |-> "none", result |-> [output |-> <<>>]],
     [raises |-> FALSE, error |-> "none", result |-> EmptyDict],
     [raises |-> TRUE, error |-> "API Error", result |-> EmptyDict]}

\* What process_task hands to its caller: a text, or the exception
TaskReturn(text) == [raises |-> FALSE, output |-> text, error |-> "none"]
TaskRaise(e) == [raises |-> TRUE, output |-> <<>>, error |-> e]

\* The metric _log_metrics sends to agent-metrics, with the loop time as timestamp
Metric(fields) == [k \in DOMAIN fields \cup {"timestamp"} |->
                      IF k = "timestamp" THEN clock.last ELSE fields[k]]

\* Mutant: the exception is swallowed and an empty output returned
ProcessTask_Swallows(name, input, executor) ==
    IF executor.raises
    THEN [outcome |-> TaskReturn(<<>>),
          metric |-> Metric([agent |-> name, task |-> Slice(input, 0, TaskPrefix),
                             success |-> FALSE, error |-> executor.error])]
    ELSE [outcome |-> TaskReturn(Get(executor.result, "output", <<>>)),
          metric |-> Metric([agent |-> name, task |-> Slice(input, 0, TaskPrefix),
                             success |-> TRUE,
                             response_length |-> Len(Get(executor.result, "output", <<>>))])]

\* process_task from the outcome of the executor on: what it hands to its caller
\* and the metric it emits
ProcessTask(name, input, executor) ==
    IF executor.raises
    THEN [outcome |-> TaskRaise(executor.error),
          metric |-> Metric([agent |-> name, task |-> Slice(input, 0, TaskPrefix),
                             success |-> FALSE, error |-> executor.error])]
    ELSE [outcome |-> TaskReturn(Get(executor.result, "output", <<>>)),
          metric |-> Metric([agent |-> name, task |-> Slice(input, 0, TaskPrefix),
                             success |-> TRUE,
                             response_length |-> Len(Get(executor.result, "output", <<>>))])]

\* The agent is built; no task has been given to it
TaskInit ==
    /\ ModInit
    /\ CollabInit
    /\ orch = NoOrchestration
    /\ chat = NoChat
    /\ insights = NoInsights
    /\ profile = NoProfile
    /\ task = [pc |-> "ready", calls |-> 0, input |-> <<>>,
               executor |-> [raises |-> FALSE, error |-> "none", result |-> EmptyDict],
               outcome |-> TaskReturn(<<>>), metrics |-> <<>>]

\* process_task is called and awaits the executor (line 159)
TaskCall(input) ==
    /\ task.pc \in {"ready", "returned", "raised"}
    /\ task.calls < MaxTasks
    /\ task' = [task EXCEPT !.pc = "awaiting", !.calls = @ + 1, !.input = input]
    /\ UNCHANGED <<modVars, collabVars, orch, chat, insights, profile>>

\* The executor finishes: the metric is sent, the output returned or the exception
\* raised again (lines 161-178)
TaskFinish(executor) ==
    /\ task.pc = "awaiting"
    /\ LET done == ProcessTask("ContentModerator", task.input, executor)
       IN task' = [task EXCEPT
                     !.pc = IF done.outcome.raises THEN "raised" ELSE "returned",
                     !.executor = executor,
                     !.outcome = done.outcome,
                     !.metrics = Append(@, done.metric)]
    /\ UNCHANGED <<modVars, collabVars, orch, chat, insights, profile>>

TaskNext ==
    \/ \E input \in Tasks : TaskCall(input)
    \/ \E executor \in ExecutorOutcomes : TaskFinish(executor)

\* The state after the agents are constructed
Init ==
    /\ ModInit
    /\ CollabInit
    /\ orch = NoOrchestration
    /\ ToolsIdle

\* The moderator: its mailbox handler and direct analyze_content calls
SpecModeration == Init /\ [][ModNext]_vars

\* One collaborate_with_agent call, the brokers and the mailbox loops
SpecCollaboration == Init /\ [][CollabNext]_vars

\* Two collaborate_with_agent calls issued within one second
SpecConcurrent == Init /\ [][ConcurrentNext]_vars

\* The mailbox loops with several messages on their channels
SpecMailbox == Init /\ [][MailboxNext]_vars

\* Construction and the mailbox loops when the store or the broker fails
SpecInfrastructure == InfraInit /\ [][InfraNext]_vars

\* The response parsers and moderate_content, on the texts of the model
SpecParser == ParserInit /\ [][ParserNext]_vars

\* The mailbox loops of the moderator and the personalizer with their own handlers
SpecDispatch == Init /\ [][DispatchNext]_vars

\* One conversation of each variant; the round loop runs until the conversation ends
SpecConversation == ChatInit /\ [][ChatNext]_vars /\ WF_vars(ChatNext)

\* Insight extraction over the conversations of up to MaxMessages messages
SpecInsights == InsightsInit /\ [][InsightsNext]_vars

\* Up to MaxRuns runs of the profiler for one user
SpecProfiler == ProfilerInit /\ [][ProfilerNext]_vars

\* Up to MaxTasks process_task calls of one agent
SpecTask == TaskInit /\ [][TaskNext]_vars

----------------------------------------------------------------------------
(* Claims about the moderation decision *)

\* The activations of analyze_content that have just returned: their locals
Decisions ==
    (IF direct.pc = "returned" THEN {direct.locals} ELSE {}) \cup
    (IF mailbox.pc = "returned" /\ mailbox.msg.message_type = "moderate_content"
     THEN {mailbox.locals} ELSE {})

AllDecoded(l) == l.toxicity_data.decodes /\ l.fact_data.decodes /\ l.nsfw_data.decodes

\* The four inputs of the decision policy, as the decoded tool outputs give them
InToxicity(l) == Get(l.toxicity_data.data, "toxicity_score", 0)
InMisinformation(l) == Get(l.fact_data.data, "misinformation_score", 0)
InNsfw(l) == Get(l.nsfw_data.data, "nsfw_detected", FALSE)
InNeedsReview(l) == Get(l.fact_data.data, "needs_review", FALSE)

\* The priority rule of the specification, for cutoffs tt (toxicity) and mt (misinformation)
PriorityRule(tt, mt, toxicity, misinformation, nsfw_detected, needs_review) ==
    CASE toxicity > tt \/ misinformation > mt \/ nsfw_detected -> "reject"
      [] OTHER -> IF toxicity > 50 \/ needs_review THEN "flag" ELSE "approve"

\* C1: with the default threshold table, the action decided for any input
\* (toxicity, misinformation, nsfw_detected, needs_review) is reject if
\* toxicity > 0.7 or misinformation > 0.6 or nsfw_detected, else flag if
\* toxicity > 0.5 or needs_review, else approve; the record of the normal path
\* carries that action.
C1_DefaultPriorityRule ==
    thresholds = DefaultThresholds =>
        \A l \in Decisions :
            AllDecoded(l) =>
                /\ l.action = PriorityRule(70, 60, InToxicity(l), InMisinformation(l),
                                           InNsfw(l), InNeedsReview(l))
                /\ l.analysis.action = l.action

\* C1 witness: under the default table, an input with needs_review alone is flagged
\* and the all-zero input is the approve case of the same rule
C1_Witness ==
    /\ thresholds = DefaultThresholds
    /\ \E l \in Decisions :
          /\ AllDecoded(l)
          /\ InToxicity(l) = 0 /\ InMisinformation(l) = 0 /\ ~InNsfw(l)
          /\ InNeedsReview(l)
          /\ l.analysis.action = "flag"

C3_AsStated ==
    \A l \in Decisions :
        (/\ AllDecoded(l)
         /\ "toxicity_score" \in DOMAIN l.toxicity_data.data
         /\ InToxicity(l) > 50 /\ InToxicity(l) <= 70
         /\ InMisinformation(l) <= 60 /\ ~InNsfw(l))
            => l.action = "flag"

\* C3 amended: every decision with toxicity in (0.5, 0.7], misinformation <= 0.6
\* and nsfw not detected is flag, as long as the toxicity threshold is not below
\* 0.7 and the misinformation threshold is not below 0.6 (as in the default table)
C3_FlagBand ==
    \A l \in Decisions :
        (/\ AllDecoded(l)
         /\ InToxicity(l) > 50 /\ InToxicity(l) <= 70
         /\ InMisinformation(l) <= 60 /\ ~InNsfw(l)
         /\ thresholds["toxicity"] >= 70 /\ thresholds["misinformation"] >= 60)
            => (l.action = "flag" /\ l.analysis.action = "flag")

\* C3 witness: toxicity exactly 0.7 with misinformation exactly 0.6 is flagged
\* under the default table
C3_Witness ==
    /\ thresholds = DefaultThresholds
    /\ \E l \in Decisions :
          /\ AllDecoded(l)
          /\ InToxicity(l) = 70 /\ InMisinformation(l) = 60 /\ ~InNsfw(l)
          /\ ~InNeedsReview(l)
          /\ l.analysis.action = "flag"

UpdateStep ==
    /\ mailbox.pc = "waiting"
    /\ mailbox'.pc = "returned"
    /\ mailbox'.msg.message_type = "update_thresholds"

\* C5: the table starts as toxicity=0.7, hate_speech=0.8, misinformation=0.6,
\* nsfw=0.8, and handling update_thresholds merges the supplied mapping into it:
\* each supplied key takes the supplied value, each other key keeps its value.
C5_UpdateMerges ==
    /\ thresholds = [toxicity |-> 70, hate_speech |-> 80, misinformation |-> 60, nsfw |-> 80]
    /\ [][UpdateStep =>
            LET new == Get(mailbox'.msg.content, "thresholds", EmptyDict)
            IN /\ DOMAIN thresholds' = (DOMAIN thresholds) \cup (DOMAIN new)
               /\ \A k \in DOMAIN new : thresholds'[k] = new[k]
               /\ \A k \in (DOMAIN thresholds) \ (DOMAIN new) : thresholds'[k] = thresholds[k]
         ]_vars

\* C5 witness: the update {toxicity: 0.9} has been handled on the initial table and
\* hate_speech, misinformation and nsfw are as before
C5_Witness ==
    /\ mailbox.pc = "returned"
    /\ mailbox.msg = [message_type |-> "update_thresholds",
                      content |-> [thresholds |-> [toxicity |-> 90]]]
    /\ thresholds = [toxicity |-> 90, hate_speech |-> 80, misinformation |-> 60, nsfw |-> 80]

----------------------------------------------------------------------------
(* Claims about request/response correlation and the mailbox loop *)

Started(c) == calls[c].pc # "init"
Outstanding(c) == calls[c].pc \in {"poll", "sleep"}
KeyOf(c) == ResponseKey(calls[c].message.correlation_id)
\* The step in which call c returns
Returns(c) == Outstanding(c) /\ calls'[c].pc = "done"

\* C6, state part: the polls of a call come one second apart (poll n+1 follows n
\* ended sleeps), there are never more than 30, and a call that has returned None
\* has polled 30 times and slept 30 times.
C6_PollSchedule ==
    \A c \in CallIds :
        /\ calls[c].polls <= 30
        /\ calls[c].pc = "poll" => calls[c].waited = calls[c].polls
        /\ calls[c].pc = "sleep" => calls[c].waited = calls[c].polls - 1
        /\ (calls[c].pc = "done" /\ calls[c].result = None) =>
              (calls[c].polls = 30 /\ calls[c].waited = 30)

\* C6, step part: a poll that finds a value at response:{correlation_id} ends the
\* call with that value, never with None; a poll that finds none returns None only
\* when 30 polls are behind it, and sleeps otherwise
C6_PollStep ==
    \A c \in CallIds :
        (calls[c].pc = "poll" /\ calls'[c] # calls[c]) =>
            IF calls[c].polls < 30
            THEN IF KeyOf(c) \in DOMAIN store
                 THEN calls'[c].pc = "done" /\ calls'[c].result # None
                 ELSE calls'[c].pc = "sleep" /\ calls'[c].result = None
            ELSE calls'[c].pc = "done" /\ calls'[c].result = None

\* C6: with no value written to response:{correlation_id} during the wait,
\* collaborate_with_agent polls the key 30 times at 1-second intervals and then
\* returns None; it never returns None while a value was present at one of its polls.
C6_TimeoutAfterThirtyPolls == [](C6_PollSchedule) /\ [][C6_PollStep]_vars

\* C6 witness: a call has returned None after 30 polls and nothing is stored under its key
C6_Witness ==
    /\ calls[1].pc = "done"
    /\ calls[1].result = None
    /\ calls[1].polls = 30
    /\ KeyOf(1) \notin DOMAIN store

\* C7: a value that is in the store under response:{correlation_id} when the call
\* returns (it was written before the 30-second wait was over) is the value the call
\* returns, decoded, and the key is deleted.
C7_AsStated ==
    [][\A c \in CallIds :
          (Returns(c) /\ KeyOf(c) \in DOMAIN store) =>
              /\ calls'[c].result = JsonLoads(store[KeyOf(c)].value)
              /\ KeyOf(c) \notin DOMAIN store'
      ]_vars

\* C8: for each correlation id at most one call is ever handed a response (the
\* first successful read deletes the key), also when the request is delivered and
\* answered more than once.
C8_AsStated ==
    \A c, d \in CallIds :
        (/\ c # d
         /\ Started(c) /\ Started(d)
         /\ calls[c].message.correlation_id = calls[d].message.correlation_id)
            => ~(calls[c].result # None /\ calls[d].result # None)

\* C9: two calls that are outstanding at the same time carry distinct correlation
\* ids, and a call is never handed the answer to another call's request.
C9_AsStated ==
    /\ \A c, d \in CallIds :
          (c # d /\ Outstanding(c) /\ Outstanding(d))
              => calls[c].message.correlation_id # calls[d].message.correlation_id
    /\ \A c \in CallIds :
          (calls[c].result # None /\ calls[c].result.body # {})
              => calls[c].result.body = {<<"answer_to", calls[c].message.content>>}

\* The step in which the loop of agent a is done with a message whose handler returned
LoopStep(a) == listener[a].pc = "returned" /\ listener'[a].pc = "waiting"

\* Whether that step has put the handler's response in the response slot
StoredBy(a) ==
    LET m == listener[a].message
    IN IF m.correlation_id.none
       THEN store' # store
       ELSE /\ ResponseKey(m.correlation_id) \in DOMAIN store'
            /\ store'[ResponseKey(m.correlation_id)] =
                  [value |-> JsonDumps(listener[a].response), ttl |-> 60]

\* C10: after a handler returns for a message, the loop stores the response under
\* response:{correlation_id} with a 60-second expiry if and only if the message
\* carried a correlation_id and the handler returned a value (any mapping, the
\* empty one included) and not None.
C10_AsStated ==
    [][\A a \in Agents :
          LoopStep(a) =>
              (StoredBy(a) <=> (~listener[a].message.correlation_id.none
                                /\ ~listener[a].response.none))
      ]_vars

\* The step in which the handler of agent a raises (the loop logs the error)
RaiseStep(a) == listener[a].pc = "handling" /\ logged'[a] > logged[a]

\* A message of a's channel that the consumer has not yet yielded
Pending(a) == offsets[a] <= Len(topics[a])

\* C11, step part: a handler exception leaves the loop waiting for the next message,
\* with the channel and the consumer's position as they were; and a message handled
\* after an exception is answered like any other (stored under its correlation id
\* when it carries one and the handler returned a non-empty mapping).
C11_RaiseStep ==
    \A a \in Agents :
        /\ RaiseStep(a) =>
              /\ listener'[a].pc = "waiting"
              /\ offsets'[a] = offsets[a]
              /\ topics'[a] = topics[a]
              /\ store' = store
        /\ (LoopStep(a) /\ logged[a] > 0
              /\ ~listener[a].message.correlation_id.none
              /\ ~listener[a].response.none /\ listener[a].response.body # {})
              => StoredBy(a)

\* C11, state part: whatever the loop has logged, it is waiting, handling a message
\* or storing a response, and while it waits every pending message can be taken up
C11_LoopAlive ==
    \A a \in Agents :
        /\ listener[a].pc \in {"waiting", "handling", "returned"}
        /\ (listener[a].pc = "waiting" /\ Pending(a)) => ENABLED Receive(a)

C12_OrphanKept ==
    \A k \in orphaned : k \in DOMAIN store /\ store[k].ttl \in 1..60

\* C12, step part: such a response is handed to no call, and it leaves the store
\* only when its last second is over (no call and no loop deletes it)
C12_OrphanStep ==
    \A k \in orphaned :
        /\ \A c \in CallIds : calls'[c].result # calls[c].result => KeyOf(c) # k
        /\ k \notin DOMAIN store' => (store[k].ttl = 1 /\ store' = RedisAge(store))
        /\ k \in DOMAIN store' =>
              store'[k].ttl \in {store[k].ttl, store[k].ttl - 1, 60}

\* C12: a response written to response:{correlation_id} after the original requester
\* has timed out is never returned to that requester or to any other call; it stays
\* in the store until its own 60-second expiry and is removed only by that expiry.
C12_LateResponseOrphaned == [](C12_OrphanKept) /\ [][C12_OrphanStep]_vars

\* C12 witness: call 1 has timed out, its request was answered afterwards, and the
\* response is in its last second in the store
C12_Witness ==
    /\ calls[1].pc = "done" /\ calls[1].result = None
    /\ KeyOf(1) \in orphaned
    /\ store[KeyOf(1)].ttl = 1

\* The places <<channel, position>> at which the message of call c has been published
Published(c) ==
    UNION {{<<a, i>> : i \in {j \in DOMAIN topics[a] : topics[a][j] = calls[c].message}} :
           a \in Agents}

\* C13, state part: the message of a started call is published exactly once, on the
\* channel of its receiver, and a loop only ever handles messages addressed to its
\* own agent
C13_OnePublish ==
    /\ \A c \in CallIds :
          Started(c) =>
              /\ Cardinality(Published(c)) = 1
              /\ \A pl \in Published(c) : pl[1] = calls[c].message.receiver
    /\ \A a \in Agents :
          listener[a].pc # "waiting" => listener[a].message.receiver = a

\* C13, step part: the message is on the channel when the call starts, before any
\* poll, and while a call is waiting nothing more is published
C13_PublishStep ==
    \A c \in CallIds :
        /\ (~Started(c) /\ Started(c)') =>
              /\ calls'[c].polls = 0
              /\ LET r == calls'[c].message.receiver
                 IN /\ topics'[r] = Append(topics[r], calls'[c].message)
                    /\ \A a \in Agents \ {r} : topics'[a] = topics[a]
        /\ (Outstanding(c) /\ calls'[c] # calls[c]) => topics' = topics

\* C13: each collaborate_with_agent call publishes exactly one message, on the
\* channel keyed by the receiver (agent-{target_agent}), before its first poll; the
\* message is never re-sent during the polling wait, and it is only ever handled by
\* the agent whose name equals the receiver.
C13_OneMessagePerCall == [](C13_OnePublish) /\ [][C13_PublishStep]_vars

\* C13 witness: call 1 has waited out its 30 polls, its one message is on the
\* moderator's channel and the moderator's loop is handling it
C13_Witness ==
    /\ calls[1].polls = 30
    /\ topics["ContentModerator"] = <<calls[1].message>>
    /\ topics["PersonalizationEngine"] = <<>>
    /\ listener["ContentModerator"].pc = "handling"
    /\ listener["ContentModerator"].message = calls[1].message

\* The step in which the handler of agent a is done with a message (it returns or raises)
HandlerStep(a) == listener[a].pc = "handling" /\ listener'[a].pc # "handling"

Unrecognised(a) == listener[a].message.message_type \notin Recognised[a]

\* C14: a message whose message_type the receiving agent does not recognise yields
\* no response (the handler returns None and the loop writes nothing to the response
\* slot, also when the message carries a correlation id), raises no error (nothing
\* is logged), and leaves the agent's state, the threshold table included, unchanged.
C14_UnrecognisedTypeIgnored ==
    [][\A a \in Agents :
          /\ (HandlerStep(a) /\ Unrecognised(a)) =>
                /\ listener'[a].pc = "returned"
                /\ listener'[a].response = None
                /\ logged' = logged
                /\ thresholds' = thresholds
                /\ store' = store
          /\ (LoopStep(a) /\ Unrecognised(a)) =>
                /\ store' = store
                /\ thresholds' = thresholds
                /\ logged' = logged
      ]_vars

\* C14 witness: the personalizer's loop is through with an update_thresholds message
\* that carried a correlation id and a new toxicity cutoff; the store is empty and
\* the table is the default one
C14_Witness ==
    /\ calls[1].pc # "init"
    /\ calls[1].message.receiver = "PersonalizationEngine"
    /\ calls[1].message.message_type = "update_thresholds"
    /\ "thresholds" \in DOMAIN calls[1].message.content
    /\ ~calls[1].message.correlation_id.none
    /\ offsets["PersonalizationEngine"] = 2
    /\ listener["PersonalizationEngine"].pc = "waiting"
    /\ store = <<>>
    /\ thresholds = DefaultThresholds

\* The step in which the loop of agent a, due to store a response, does not get it stored
StoreFails(a) ==
    /\ listener[a].pc = "returned"
    /\ listener'[a].pc # "returned"
    /\ TruthyStr(listener[a].message.correlation_id)
    /\ TruthyDict(listener[a].response)
    /\ ~StoredBy(a)

\* C15: a store or broker failure is not caught at this layer. During construction
\* it leaves __init__ (no agent, no loop); during a poll it leaves
\* collaborate_with_agent (no result, no further poll); while the loop stores a
\* response it leaves the loop iteration and is not logged and passed over the way a
\* handler exception is.
C15_AsStated ==
    [][/\ \A a \in Agents :
             (listener[a].pc = "unbuilt" /\ listener'[a].pc # "unbuilt") =>
                 listener'[a].pc \in {"waiting", "init_raised"}
       /\ \A c \in CallIds :
             (calls[c].pc = "poll" /\ calls[c].polls < MaxPolls /\ calls'[c].pc = "done")
                 => calls'[c].result # None
       /\ \A a \in Agents :
             StoreFails(a) => (listener'[a].pc # "waiting" /\ logged'[a] = logged[a])
      ]_vars

----------------------------------------------------------------------------
(* Claims about the response parsers *)

\* The parse function op has returned for the text orch.response
Parsed(op) == orch.pc = "done" /\ orch.op = op
ParseOps ==
    {"_parse_moderation_response", "_parse_personalization_response",
     "_parse_generation_response", "_parse_analysis_response"}

\* One of the three words occurs in the text, whatever the case of its letters
KeywordOccurs(text) ==
    \E word \in Keywords : \E i \in 1..Len(text) :
        /\ i + Len(word) - 1 <= Len(text)
        /\ \A j \in 1..Len(word) : LowerChar(text[i + j - 1]) = word[j]

OpenBraces(text) == {i \in DOMAIN text : text[i] = "{"}
CloseBraces(text) == {i \in DOMAIN text : text[i] = "}"}
\* The text from the first '{' to the last '}', both included
BraceSpan(text) ==
    LET first == CHOOSE i \in OpenBraces(text) : \A k \in OpenBraces(text) : i <= k
        last == CHOOSE j \in CloseBraces(text) : \A k \in CloseBraces(text) : k <= j
    IN SubSeq(text, first, last)
\* No structured output can be extracted from the text
NothingToExtract(text) ==
    \/ OpenBraces(text) = {} \/ CloseBraces(text) = {}
    \/ JsonLoadsText(BraceSpan(text)).raises

\* C16: for every text that does not contain both a '{' and a '}', the moderation
\* parser returns the default record, whose status is FLAGGED if "inappropriate",
\* "harmful" or "spam" occurs in the lower-cased text and APPROVED otherwise.
C16_KeywordDefault ==
    (Parsed("_parse_moderation_response")
     /\ (OpenBraces(orch.response) = {} \/ CloseBraces(orch.response) = {}))
        => /\ ~orch.outcome.raises
           /\ orch.outcome.value =
                 PyDict([status |-> IF KeywordOccurs(orch.response)
                                    THEN "FLAGGED" ELSE "APPROVED",
                         score |-> 50,
                         reasoning |-> orch.response,
                         issues |-> <<>>,
                         recommendations |-> <<>>])

\* C16 witness: "{SPAM" has an opening brace only and an upper-case keyword, and the
\* moderation parser has returned FLAGGED for it
C16_Witness ==
    /\ Parsed("_parse_moderation_response")
    /\ orch.response = <<"{", "S", "P", "A", "M">>
    /\ orch.outcome.value.items.status = "FLAGGED"

\* C17 as stated: when the text contains braces but the text between them fails to
\* decode, each parser returns the record it returns for a text without braces (for
\* moderation the keyword-based FLAGGED/APPROVED record).
C17_AsStated ==
    (orch.pc = "done" /\ OpenBraces(orch.response) # {} /\ CloseBraces(orch.response) # {}
     /\ JsonLoadsText(BraceSpan(orch.response)).raises)
        => /\ orch.op = "_parse_moderation_response" =>
                 orch.outcome = Return(ModerationFallback(orch.response))
           /\ orch.op = "_parse_personalization_response" =>
                 orch.outcome = Return(PersonalizationFallback)
           /\ orch.op = "_parse_generation_response" =>
                 orch.outcome = Return(GenerationFallback(orch.response))
           /\ orch.op = "_parse_analysis_response" =>
                 orch.outcome = Return(AnalysisFallback)

\* C17: when the text contains braces but the text between them fails to decode,
\* each parser returns its own error record: moderation status ERROR with score 0
\* and the text as reasoning, personalization score 0, generation both scores 0
\* with the text as content, analysis the zero record; the lists are empty.
C17_DecodeFailureRecord ==
    (orch.pc = "done" /\ OpenBraces(orch.response) # {} /\ CloseBraces(orch.response) # {}
     /\ JsonLoadsText(BraceSpan(orch.response)).raises)
        => /\ orch.op = "_parse_moderation_response" =>
                 orch.outcome = Return(PyDict([status |-> "ERROR", score |-> 0,
                                               reasoning |-> orch.response,
                                               issues |-> <<>>,
                                               recommendations |-> <<>>]))
           /\ orch.op = "_parse_personalization_response" =>
                 orch.outcome = Return(PyDict([topics |-> <<>>, creators |-> <<>>,
                                               trending |-> <<>>, strategies |-> <<>>,
                                               score |-> 0]))
           /\ orch.op = "_parse_generation_response" =>
                 orch.outcome = Return(PyDict([content |-> orch.response,
                                               alternatives |-> <<>>,
                                               quality_score |-> 0,
                                               engagement_score |-> 0,
                                               hashtags |-> <<>>]))
           /\ orch.op = "_parse_analysis_response" =>
                 orch.outcome = Return(PyDict(
                     [sentiment |-> PyDict([label |-> "neutral", confidence |-> 0]),
                      topics |-> <<>>, language |-> "unknown", readability |-> 0,
                      ai_probability |-> 0, cultural_context |-> PyDict(<<>>)]))

\* C17 witness: '{{"a":1}}' does not decode, and the personalization parser has
\* returned the record with score 0 for it
C17_Witness ==
    /\ Parsed("_parse_personalization_response")
    /\ orch.response = <<"{">> \o <<"{", "\"", "a", "\"", ":", "1", "}">> \o <<"}">>
    /\ orch.outcome.value.items.score = 0

\* C18: when the text contains both '{' and '}', each parser decodes exactly the text
\* from the first '{' to the last '}' inclusive: if that span decodes, the decoded
\* object is what the parser returns (an object embedded in prose is extracted); if
\* it does not (several brace pairs with text between them), nothing of it is
\* returned and the moderation parser returns its error record.
C18_BraceGreedySpan ==
    (orch.pc = "done" /\ orch.op \in ParseOps
     /\ OpenBraces(orch.response) # {} /\ CloseBraces(orch.response) # {})
        => LET decoded == JsonLoadsText(BraceSpan(orch.response))
           IN IF ~decoded.raises
              THEN orch.outcome = decoded
              ELSE orch.op = "_parse_moderation_response" =>
                      orch.outcome = Return(ModerationError(orch.response))

\* C18 witness: the object of ' noise {"a":1} noise ' has been extracted
C18_Witness ==
    /\ Parsed("_parse_moderation_response")
    /\ orch.response = <<" ", "n", "o", "i", "s", "e", " ">>
                       \o <<"{", "\"", "a", "\"", ":", "1", "}">>
                       \o <<" ", "n", "o", "i", "s", "e", " ">>
    /\ orch.outcome = Return(PyDict(<<"a">> :> PyInt(1)))

\* C19 as stated: for personalization, generation and analysis the record returned when no
\* structured output can be extracted has all list fields empty and all score
\* fields 0.
C19_AsStated ==
    (orch.pc = "done" /\ NothingToExtract(orch.response))
        => LET r == orch.outcome.value.items
           IN /\ orch.op = "_parse_personalization_response" =>
                    /\ r.topics = <<>> /\ r.creators = <<>> /\ r.trending = <<>>
                    /\ r.strategies = <<>> /\ r.score = 0
              /\ orch.op = "_parse_generation_response" =>
                    /\ r.alternatives = <<>> /\ r.hashtags = <<>>
                    /\ r.quality_score = 0 /\ r.engagement_score = 0
              /\ orch.op = "_parse_analysis_response" =>
                    /\ r.topics = <<>> /\ r.readability = 0 /\ r.ai_probability = 0
                    /\ r.sentiment.items.confidence = 0

\* The score a default record carries: 50 for a text without both braces, 0 for a
\* text whose brace span does not decode
DefaultScore(text) ==
    IF OpenBraces(text) = {} \/ CloseBraces(text) = {} THEN 50 ELSE 0

\* C19: for personalization, generation and analysis the record returned when no
\* structured output can be extracted has all list fields empty; the score fields
\* of analysis are 0, those of personalization and generation are 50 when the text
\* lacks a brace and 0 when its brace span does not decode.
C19_DefaultRecords ==
    (orch.pc = "done" /\ NothingToExtract(orch.response))
        => LET r == orch.outcome.value.items
           IN /\ orch.op = "_parse_personalization_response" =>
                    /\ r.topics = <<>> /\ r.creators = <<>> /\ r.trending = <<>>
                    /\ r.strategies = <<>> /\ r.score = DefaultScore(orch.response)
              /\ orch.op = "_parse_generation_response" =>
                    /\ r.alternatives = <<>> /\ r.hashtags = <<>>
                    /\ r.quality_score = DefaultScore(orch.response)
                    /\ r.engagement_score = DefaultScore(orch.response)
              /\ orch.op = "_parse_analysis_response" =>
                    /\ r.topics = <<>> /\ r.readability = 0 /\ r.ai_probability = 0
                    /\ r.sentiment.items.confidence = 0

\* C19 witness: " noise " has no braces, and the generation parser has returned a
\* record with no alternatives and quality score 50 for it
C19_Witness ==
    /\ Parsed("_parse_generation_response")
    /\ orch.response = <<" ", "n", "o", "i", "s", "e", " ">>
    /\ orch.outcome.value.items.alternatives = <<>>
    /\ orch.outcome.value.items.quality_score = 50

\* C20: parse failure is never surfaced: for every text each parse function, and
\* moderate_content for every outcome of the agent call (a text or an exception),
\* returns a mapping and does not raise.
C20_NeverSurfaced ==
    orch.pc = "done" => (~orch.outcome.raises /\ orch.outcome.value.type = "dict")

\* C20 witness: "{ noise }" does not decode, and moderate_content has returned the
\* parser's error record for it
C20_Witness ==
    /\ Parsed("moderate_content")
    /\ orch.response = <<"{">> \o <<" ", "n", "o", "i", "s", "e", " ">> \o <<"}">>
    /\ ~orch.outcome.raises
    /\ orch.outcome.value.items.status = "ERROR"

----------------------------------------------------------------------------
(* Claims about the conversation *)

Terminated == chat.state = "TERMINATED"
\* The token occurs somewhere in the last message
TokenAppears ==
    /\ "content" \in DOMAIN chat.last
    /\ \E i \in 1..(Len(chat.last.content) - Len(Token) + 1) :
          SubSeq(chat.last.content, i, i + Len(Token) - 1) = Token
\* The last message's content ends with the token once trailing blanks are dropped
TokenEnds ==
    /\ "content" \in DOMAIN chat.last
    /\ \E n \in 0..Len(chat.last.content) :
          /\ \A i \in (n + 1)..Len(chat.last.content) :
                chat.last.content[i] \in {" ", "\n", "\t"}
          /\ n >= Len(Token)
          /\ SubSeq(chat.last.content, n - Len(Token) + 1, n) = Token

C21_EndsExactly ==
    /\ chat.turns <= MaxRound(chat.variant)
    /\ Terminated <=> (chat.turns > 0
                       /\ (TokenEnds \/ chat.turns = (CASE chat.variant = "normal" -> 20
                                                       [] chat.variant = "crisis" -> 30
                                                       [] chat.variant = "autogen" -> 50)))
\* No agent speaks after termination
C21_SilentStep == Terminated => chat' = chat

ContentsFrom(name) ==
    LET sent == SelectSeq(insights.messages, LAMBDA m : m.name = name)
    IN [i \in 1..Len(sent) |-> sent[i].content]

\* C22: insight extraction places the content of every message of the conversation
\* into the bucket of its sender's role: each bucket holds exactly the messages
\* sent by that role (and messages of other senders are in no bucket).
C22_BucketsBySenderRole ==
    insights.pc = "done"
        => /\ insights.buckets.content_strategy = ContentsFrom("ContentStrategist")
           /\ insights.buckets.ux_improvements = ContentsFrom("UXResearcher")
           /\ insights.buckets.economic_recommendations = ContentsFrom("EconomicAnalyst")
           /\ insights.buckets.governance_actions = ContentsFrom("GovernanceAdvisor")
           /\ insights.buckets.safety_concerns = ContentsFrom("SafetyOfficer")

\* C22 witness: the conversation of the test, one message each from the content
\* strategist, the safety officer and the economic analyst, gives those three
\* buckets one entry each
C22_Witness ==
    /\ insights.pc = "done"
    /\ insights.messages =
          <<[name |-> "ContentStrategist", content |-> "We should focus on video content"],
            [name |-> "SafetyOfficer", content |-> "Increased spam detected"],
            [name |-> "EconomicAnalyst", content |-> "Transaction volume is up 20%"]>>
    /\ Len(insights.buckets.content_strategy) = 1
    /\ Len(insights.buckets.safety_concerns) = 1
    /\ Len(insights.buckets.economic_recommendations) = 1

----------------------------------------------------------------------------
(* Claims about the user profile *)

\* At most 100 history entries, the most recent ones in arrival order, and at most
\* 20 interests
C23_Bounded ==
    /\ Len(profile.interaction_history) <= 100
    /\ Len(profile.interaction_history) = IF profile.arrived < 100 THEN profile.arrived ELSE 100
    /\ \A i \in DOMAIN profile.interaction_history :
          profile.interaction_history[i] =
              profile.arrived - Len(profile.interaction_history) + i
    /\ Cardinality(profile.interests) <= 20
\* A run that saves the profile does not evict an interest it has just observed
\* while it keeps an older interest that it has not observed
C23_RecencyStep ==
    (profile'.runs = profile.runs + 1 /\ profile'.profile_updated
     /\ \E older \in profile'.interests :
           older \in profile.interests /\ older \notin profile'.seen)
        => profile'.seen \subseteq profile'.interests

\* C23: after any sequence of UserProfilerTool runs for a user, the stored profile
\* has at most 100 interaction_history entries, which are the most recent ones in
\* arrival order, and at most 20 interests without duplicates, biased to the most
\* recently seen interests (a newly observed interest is not evicted in favour of
\* an older one).
C23_AsStated == [](C23_Bounded) /\ [][C23_RecencyStep]_vars

----------------------------------------------------------------------------
(* Claims about process_task *)

TaskDone == task.pc \in {"returned", "raised"}
LastMetric == task.metrics[Len(task.metrics)]

\* On success the executor's output is returned and a success metric emitted; when
\* the executor raises, a failure metric is emitted and its exception raised
C24_Outcome ==
    TaskDone =>
        /\ Len(task.metrics) = task.calls
        /\ LastMetric.agent = "ContentModerator"
        /\ LastMetric.task = SubSeq(task.input, 1, IF Len(task.input) < 100
                                                    THEN Len(task.input) ELSE 100)
        /\ IF task.executor.raises
           THEN /\ task.pc = "raised"
                /\ task.outcome.raises
                /\ task.outcome.error = task.executor.error
                /\ LastMetric.success = FALSE
                /\ LastMetric.error = task.executor.error
           ELSE /\ task.pc = "returned"
                /\ ~task.outcome.raises
                /\ "output" \in DOMAIN task.executor.result
                      => task.outcome.output = task.executor.result.output
                /\ LastMetric.success = TRUE
\* Each call emits exactly one metric, when it finishes
C24_MetricStep ==
    Len(task'.metrics) = Len(task.metrics) + (IF task.pc = "awaiting" /\ task'.pc # "awaiting"
                                               THEN 1 ELSE 0)

\* C24: process_task returns the executor's output on success, and when the
\* underlying executor/LLM call raises it emits a failure metric (success=False)
\* and re-raises the exception to the caller instead of returning a value.
C24_ReturnsOrReraises == [](C24_Outcome) /\ [][C24_MetricStep]_vars

\* C24 witness: the executor has raised "API Error" on the second task; the call
\* has raised it again after a failure metric
C24_Witness ==
    /\ task.pc = "raised"
    /\ task.calls = 2
    /\ task.outcome.raises
    /\ task.outcome.error = "API Error"
    /\ LastMetric.success = FALSE

----------------------------------------------------------------------------
(* Claims about the threshold table and the detection tools *)

\* The step in which an activation of analyze_content decides (lines 276-337)
DecisionStep ==
    \/ direct.pc = "process_task" /\ direct'.pc = "returned"
    \/ mailbox.pc = "process_task" /\ mailbox'.pc = "returned"

\* C25: each moderation decision is evaluated against a single state of the
\* threshold table: the action of every decision whose tool outputs decode is the
\* priority rule under the toxicity and the misinformation cutoff of one and the
\* same table, the one in force when the activation returns; the step that decides
\* changes no cutoff, and no update_thresholds is handled between the decision and
\* its hand-over to the caller, also when the mailbox loop runs alongside a direct call.
C25_SingleTableState ==
    /\ [](\A l \in Decisions :
             AllDecoded(l) =>
                l.action = PriorityRule(thresholds["toxicity"], thresholds["misinformation"],
                                        InToxicity(l), InMisinformation(l),
                                        InNsfw(l), InNeedsReview(l)))
    /\ [][/\ DecisionStep => thresholds' = thresholds
          /\ (Decisions # {}) => thresholds' = thresholds
         ]_vars

\* C25 witness: after an update that raised the toxicity cutoff to 0.9 and lowered
\* the misinformation cutoff to 0.55, a direct call made while the mailbox loop is
\* waiting decided on toxicity 0.8 and misinformation 0.6: reject (by the new
\* misinformation cutoff, though no longer by toxicity)
C25_Witness ==
    /\ thresholds["toxicity"] = 90
    /\ thresholds["misinformation"] = 55
    /\ direct.pc = "returned"
    /\ mailbox.pc = "waiting"
    /\ AllDecoded(direct.locals)
    /\ InToxicity(direct.locals) = 80
    /\ InMisinformation(direct.locals) = 60
    /\ ~InNsfw(direct.locals)
    /\ direct.locals.analysis.action = "reject"

\* The tables that differ from t in hate_speech and/or nsfw only
SameButHateSpeechAndNsfw(t) ==
    {DictUpdate(t, [hate_speech |-> h, nsfw |-> n]) :
        h, n \in {0} \cup ThresholdChoices["hate_speech"] \cup ThresholdChoices["nsfw"]}

\* C26: the hate_speech and nsfw entries of the threshold table never influence a
\* decision and the 0.5 flag cutoff is fixed: for every decision, the same tool
\* outputs under any table that differs from the current one in hate_speech and/or
\* nsfw only give the same action, hate_speech_detected and nsfw_detected; and a
\* decoded decision that is not reject is flag exactly when toxicity > 0.5 or
\* needs_review, whatever the table holds.
C26_HateSpeechAndNsfwUnused ==
    \A l \in Decisions :
        /\ \A t \in SameButHateSpeechAndNsfw(thresholds) :
              LET other == AnalyzeLocals(l.toxicity_data, l.fact_data, l.nsfw_data, t)
              IN /\ other.analysis.action = l.analysis.action
                 /\ other.analysis.hate_speech_detected = l.analysis.hate_speech_detected
                 /\ other.analysis.nsfw_detected = l.analysis.nsfw_detected
        /\ (AllDecoded(l) /\ l.analysis.action # "reject") =>
              (l.analysis.action = "flag" <=> (InToxicity(l) > FlagCutoff \/ InNeedsReview(l)))

\* C26 witness: updates have set hate_speech to 0.9 and nsfw to 0.5; a decision on
\* toxicity 0.6 with the tool's toxic mark set is flag with hate_speech_detected
C26_Witness ==
    /\ thresholds["hate_speech"] = 90
    /\ thresholds["nsfw"] = 50
    /\ \E l \in Decisions :
          /\ AllDecoded(l)
          /\ InToxicity(l) = 60
          /\ l.analysis.hate_speech_detected
          /\ ~l.analysis.nsfw_detected
          /\ l.analysis.action = "flag"

----------------------------------------------------------------------------
(* Claims about the order in which one mailbox loop works *)

\* A handler of agent a is in progress, or its response is about to be stored
InProgress(a) == listener[a].pc \in {"handling", "returned"}

\* The step in which the handler of agent a is started for a message
StartStep(a) ==
    /\ listener'[a].pc = "handling"
    /\ listener[a].pc # "handling" \/ offsets'[a] # offsets[a]

\* The keys of the response store written (set or overwritten) by a step
Written == {k \in DOMAIN store' : k \notin DOMAIN store \/ store'[k] # store[k]}

\* C27, state part: while a message is in progress it is the one the consumer
\* yielded last, and the loop holds no message while it waits
C27_OneInHand ==
    \A a \in Agents :
        /\ InProgress(a) =>
              /\ offsets[a] - 1 \in DOMAIN topics[a]
              /\ listener[a].message = topics[a][offsets[a] - 1]
        /\ listener[a].pc = "waiting" => listener[a].message = NoAgentMessage

\* C27, step part: a handler starts only when the loop is waiting (the previous
\* handler has returned or raised and its response, if any, has been stored), for
\* the next message of the channel; while a message is in progress no other one is
\* taken; a response is written only by the loop that is through with the message
\* in hand, under that message's correlation id
C27_OrderStep ==
    /\ \A a \in Agents :
          /\ StartStep(a) =>
                /\ listener[a].pc = "waiting"
                /\ offsets[a] \in DOMAIN topics[a]
                /\ listener'[a].message = topics[a][offsets[a]]
                /\ offsets'[a] = offsets[a] + 1
          /\ InProgress(a) =>
                /\ offsets'[a] = offsets[a]
                /\ listener'[a].message \in {listener[a].message, NoAgentMessage}
    /\ \A k \in Written :
          \E a \in Agents :
              /\ LoopStep(a)
              /\ ~listener[a].message.correlation_id.none
              /\ k = ResponseKey(listener[a].message.correlation_id)
              /\ listener[a].message = topics[a][offsets[a] - 1]

\* C27: the mailbox loop of one agent handles messages strictly one at a time in
\* delivery order: the handler for a message starts only after the previous
\* message's handler has returned or raised and its response (if any) has been
\* stored, so at most one handler per agent is in progress at any time and
\* responses are stored in delivery order.
C27_OneAtATimeInOrder == [](C27_OneInHand) /\ [][C27_OrderStep]_vars

\* C27 witness: an agent's channel holds the request of call 1 and then another
\* message; the response to the request is in the store and the handler of the
\* second message is running
C27_Witness ==
    \E a \in Agents :
        /\ Len(topics[a]) >= 2
        /\ Started(1)
        /\ topics[a][1] = calls[1].message
        /\ KeyOf(1) \in DOMAIN store
        /\ offsets[a] = 3
        /\ listener[a].pc = "handling"
        /\ listener[a].message = topics[a][2]

----------------------------------------------------------------------------
(* Claims about repeated and competing threshold updates *)

\* Table t already holds every entry of the mapping new
Holds(t, new) == \A k \in DOMAIN new : k \in DOMAIN t /\ t[k] = new[k]

\* C28, step part: for every update_thresholds message handled, on whatever table
\* earlier updates have left: each key it sets holds its value afterwards (the
\* update handled last wins over any earlier one); the table then holds the whole
\* mapping, so that handling the same message again, on redelivery, changes
\* nothing; a table that already holds the mapping is left exactly as it is; and
\* no key of the table is removed.
C28_UpdateStep ==
    UpdateStep =>
        LET new == Get(mailbox'.msg.content, "thresholds", EmptyDict)
        IN /\ \A k \in DOMAIN new : thresholds'[k] = new[k]
           /\ Holds(thresholds', new)
           /\ DictUpdate(thresholds', new) = thresholds'
           /\ Holds(thresholds, new) => thresholds' = thresholds
           /\ DOMAIN thresholds \subseteq DOMAIN thresholds'

\* C28: handling update_thresholds is idempotent and last-writer-wins: handling the
\* same update message twice leaves the threshold table exactly as handling it
\* once, for two updates that set the same key the table holds the value of the one
\* handled last, and no update ever removes a key from the table.
C28_IdempotentLastWriterWins ==
    /\ [](DOMAIN DefaultThresholds \subseteq DOMAIN thresholds)
    /\ [][C28_UpdateStep]_vars

\* C28 witness: the update {toxicity: 0.9} has just been handled on a table that an
\* earlier update had changed (misinformation 0.55, a spam key added): toxicity is
\* 0.9, the earlier entries and the added key are still there
C28_Witness ==
    /\ mailbox.pc = "returned"
    /\ mailbox.msg = [message_type |-> "update_thresholds",
                      content |-> [thresholds |-> [toxicity |-> 90]]]
    /\ thresholds = [toxicity |-> 90, hate_speech |-> 80, misinformation |-> 55,
                     nsfw |-> 80, spam |-> 55]

----------------------------------------------------------------------------
(* Claims about needs_review and about failing tools *)

\* FactCheckingTool._run line 165: "needs_review": misinformation_score > 0.6
ReviewCutoff == 60

\* The fact tool's output of decision l is one FactCheckingTool._run builds on its
\* normal path (lines 160-166): both fields, needs_review derived from the score
FactToolDerived(l) ==
    /\ l.fact_data.decodes
    /\ {"misinformation_score", "needs_review"} \subseteq DOMAIN l.fact_data.data
    /\ l.fact_data.data["needs_review"] =
          (l.fact_data.data["misinformation_score"] > ReviewCutoff)

\* C29: when needs_review is derived as FactCheckingTool derives it (needs_review =
\* misinformation_score > 0.6) and the misinformation threshold is at its default
\* 0.6, every decision with needs_review true is reject; a decision that is flag by
\* needs_review alone (toxicity not above 0.5) occurs only under a misinformation
\* threshold above 0.6.
C29_ReviewNeverFlagsByDefault ==
    \A l \in Decisions :
        (AllDecoded(l) /\ FactToolDerived(l) /\ InNeedsReview(l)) =>
            /\ thresholds["misinformation"] = DefaultThresholds["misinformation"]
                  => l.analysis.action = "reject"
            /\ (l.analysis.action = "flag" /\ InToxicity(l) <= FlagCutoff)
                  => thresholds["misinformation"] > DefaultThresholds["misinformation"]

\* C29 witness: update_thresholds has raised the misinformation threshold to 0.9;
\* a decision on misinformation 0.7 (needs_review true), toxicity 0 and no nsfw is flag
C29_Witness ==
    /\ thresholds["misinformation"] = 90
    /\ \E l \in Decisions :
          /\ AllDecoded(l)
          /\ FactToolDerived(l)
          /\ InMisinformation(l) = 70
          /\ InNeedsReview(l)
          /\ InToxicity(l) = 0
          /\ ~InNsfw(l)
          /\ l.analysis.action = "flag"

\* What json.loads makes of the record a detection tool returns from its own except
\* branch: {"error": ..., "<x>_score": 0.0}, without toxic, needs_review or
\* nsfw_detected (the decision reads no nsfw_score, so nothing is left of it)
ToxicityToolError == [decodes |-> TRUE, data |-> [toxicity_score |-> 0]]
FactToolError == [decodes |-> TRUE, data |-> [misinformation_score |-> 0]]
NSFWToolError == [decodes |-> TRUE, data |-> EmptyDict]

\* Every score of the record is zero and nothing is detected
AllZero(analysis) ==
    /\ analysis.toxicity_score = 0
    /\ analysis.misinformation_score = 0
    /\ ~analysis.hate_speech_detected
    /\ ~analysis.nsfw_detected

\* C30: analyze_content treats missing tool fields as safe and unparseable tool
\* output as suspicious. A field missing from a decoded tool output counts as 0 or
\* False in the returned record; when all three tools return their internal error
\* record the action is approve with all scores zero, under the current table and
\* under any table with cutoffs between 0 and 1; when a tool's output cannot be
\* decoded the returned record has action flag with all scores zero.
C30_MissingSafeUndecodableSuspicious ==
    /\ \A l \in Decisions :
          /\ AllDecoded(l) =>
                /\ "toxicity_score" \notin DOMAIN l.toxicity_data.data
                      => l.analysis.toxicity_score = 0
                /\ "toxic" \notin DOMAIN l.toxicity_data.data
                      => ~l.analysis.hate_speech_detected
                /\ "misinformation_score" \notin DOMAIN l.fact_data.data
                      => l.analysis.misinformation_score = 0
                /\ "nsfw_detected" \notin DOMAIN l.nsfw_data.data
                      => ~l.analysis.nsfw_detected
          /\ (/\ l.toxicity_data = ToxicityToolError
              /\ l.fact_data = FactToolError
              /\ l.nsfw_data = NSFWToolError)
                => (l.analysis.action = "approve" /\ AllZero(l.analysis))
          /\ ~AllDecoded(l) => (l.analysis.action = "flag" /\ AllZero(l.analysis))
    /\ \A tt, mt \in {0, FlagCutoff, 100} :
          LET t == DictUpdate(thresholds, [toxicity |-> tt, misinformation |-> mt])
              l == AnalyzeLocals(ToxicityToolError, FactToolError, NSFWToolError, t)
          IN l.analysis.action = "approve" /\ AllZero(l.analysis)

\* C30 witness: with the toxicity cutoff lowered to 0.55, the three tools have
\* returned their error records to the handler's analyze_content and the record
\* it returned is approve
C30_Witness ==
    /\ thresholds["toxicity"] = 55
    /\ mailbox.pc = "returned"
    /\ mailbox.msg.message_type = "moderate_content"
    /\ mailbox.locals.toxicity_data = ToxicityToolError
    /\ mailbox.locals.fact_data = FactToolError
    /\ mailbox.locals.nsfw_data = NSFWToolError
    /\ mailbox.locals.analysis.action = "approve"
    /\ mailbox.response = AnalysisResponse(mailbox.locals.analysis)

====
